---- MODULE Spec2Model ----
(***************************************************************************)
(* State-machine model of the media transport core of ermis-classroom-sdk: *)
(*   - the jitter-resistant audio worklet  (src/src/workers/audio-worklet1.js) *)
(*   - the media worker / receiver          (src/unnamed/part_001)           *)
(*   - the Publisher's channel multiplexer  (src/src/index.js)               *)
(* Each subsystem has its own specification (SpecJB, SpecRecv, SpecPub);     *)
(* the variables of the other subsystems stay at their initial values.      *)
(***************************************************************************)
EXTENDS Integers, Sequences, FiniteSets, TLC

Max(a, b) == IF a >= b THEN a ELSE b
Min(a, b) == IF a <= b THEN a ELSE b

(***************************************************************************)
(* Jitter buffer: JitterResistantProcessor                                  *)
(***************************************************************************)

\* adaptiveBufferSize is a JS double (x1.5, x0.95 make it fractional); it is
\* held in fixed point, in units of 1/Scale frame.
Scale == 1000

\* underruns explored per behaviour (each one adds a family of target values)
MaxUnderruns == 1

bufferSize == 2048
minBuffer == 2048
maxBuffer == 8192
DefaultSampleRate == 48000
DefaultChannels == 2
DefaultFadeInLength == 480

\* inputs of the handlers
ChunkSizes == {0, 960}                \* frames per channel of one audioData message
WorkerSampleRates == {48000}          \* sampleRate field of an audioData message
WorkerChannels == {1, 2}              \* numberOfChannels field of an audioData message
BlockLengths == {128}                 \* output[0].length of a process() call
OutputChannels == {1, 2}              \* outputs[0].length of a process() call
SetBufferSizeInputs == {1000, 3000, 4096, 20000}   \* data field of setBufferSize

VARIABLES
    audioBuffers,        \* per channel: number of queued samples (contents are opaque)
    isPlaying,
    fadeInSamples,
    fadeInLength,
    adaptiveBufferSize,  \* fixed point, 1/Scale frame
    jbSampleRate,
    jbNumberOfChannels,
    workerPort,          \* TRUE once connectWorker installed the worker port
    underruns,           \* underruns so far (exploration bound only)
    jbCall               \* the handler that ran last, its inputs and its outputs

jbVars == <<audioBuffers, isPlaying, fadeInSamples, fadeInLength,
            adaptiveBufferSize, jbSampleRate, jbNumberOfChannels, workerPort, underruns, jbCall>>

JBInit ==
    /\ audioBuffers = <<>>
    /\ isPlaying = FALSE
    /\ fadeInSamples = 0
    /\ fadeInLength = DefaultFadeInLength
    /\ adaptiveBufferSize = bufferSize * Scale
    /\ jbSampleRate = DefaultSampleRate
    /\ jbNumberOfChannels = DefaultChannels
    /\ workerPort = FALSE
    /\ underruns = 0
    /\ jbCall = [op |-> "constructor"]

\* this.audioBuffers[0] ? this.audioBuffers[0].length : 0
FirstChannelLength(bufs) == IF Len(bufs) > 0 THEN bufs[1] ELSE 0

\* resizeBuffers(n): n empty channel queues
resizeBuffers(n) == [ch \in 1..n |-> 0]

\* Math.round(workerSampleRate / 100)
RoundDiv100(sr) == (sr + 50) \div 100

GrowTarget_Uncapped(a) == (a * 3) \div 2

\* adaptiveBufferSize * 1.5 capped at maxBuffer
GrowTarget(a) == Min(maxBuffer * Scale, (a * 3) \div 2)

ShrinkTarget_Unfloored(a) == (a * 19) \div 20

\* adaptiveBufferSize * 0.95 floored at minBuffer
ShrinkTarget(a) == Max(minBuffer * Scale, (a * 19) \div 20)

\* the queues after addAudioData pushed n samples on each of nch channels and trimmed
PushAndTrim(bufs, nch, n) ==
    LET grown == [ch \in 1..Max(Len(bufs), nch) |->
                     (IF ch <= Len(bufs) THEN bufs[ch] ELSE 0) + (IF ch <= nch THEN n ELSE 0)]
        excess == grown[1] - maxBuffer
    IN IF grown[1] > maxBuffer
          THEN [ch \in 1..Len(grown) |-> Max(0, grown[ch] - excess)]
          ELSE grown

StartsPlayback_AnyData(playing, bufs, target) ==
    ~playing /\ FirstChannelLength(bufs) > 0

\* playback gate of addAudioData
StartsPlayback(playing, bufs, target) ==
    ~playing /\ FirstChannelLength(bufs) * Scale >= target

\* port.onmessage {type: "connectWorker"}
ConnectWorker ==
    /\ workerPort' = TRUE
    /\ jbCall' = [op |-> "connectWorker"]
    /\ UNCHANGED <<audioBuffers, isPlaying, fadeInSamples, fadeInLength,
                   adaptiveBufferSize, jbSampleRate, jbNumberOfChannels, underruns>>

\* workerPort.onmessage {type: "audioData"}: reconfigure on a format change, then addAudioData
AudioData(sr, nch, n) ==
    /\ workerPort
    /\ LET changed == jbSampleRate # sr \/ jbNumberOfChannels # nch
           bufs0 == IF changed THEN resizeBuffers(nch) ELSE audioBuffers
           empty == n = 0
           bufs1 == IF empty THEN bufs0 ELSE PushAndTrim(bufs0, nch, n)
           start == ~empty /\ StartsPlayback(isPlaying, bufs1, adaptiveBufferSize)
       IN /\ jbSampleRate' = sr
          /\ jbNumberOfChannels' = nch
          /\ fadeInLength' = IF changed THEN RoundDiv100(sr) ELSE fadeInLength
          /\ audioBuffers' = bufs1
          /\ isPlaying' = (isPlaying \/ start)
          /\ fadeInSamples' = IF start THEN 0 ELSE fadeInSamples
          /\ jbCall' = [op |-> "audioData", started |-> start]
    /\ UNCHANGED <<adaptiveBufferSize, workerPort, underruns>>

reset_KeepsQueues ==
    /\ audioBuffers' = audioBuffers
    /\ isPlaying' = FALSE
    /\ fadeInSamples' = 0
    /\ adaptiveBufferSize' = bufferSize * Scale
    /\ jbCall' = [op |-> "reset", wasPlaying |-> isPlaying,
                   hadFrames |-> (FirstChannelLength(audioBuffers) > 0),
                   hadTarget |-> adaptiveBufferSize]
    /\ UNCHANGED <<fadeInLength, jbSampleRate, jbNumberOfChannels, workerPort, underruns>>

reset_ToMax ==
    /\ audioBuffers' = [ch \in 1..Len(audioBuffers) |-> 0]
    /\ isPlaying' = FALSE
    /\ fadeInSamples' = 0
    /\ adaptiveBufferSize' = maxBuffer * Scale
    /\ jbCall' = [op |-> "reset", wasPlaying |-> isPlaying,
                   hadFrames |-> (FirstChannelLength(audioBuffers) > 0),
                   hadTarget |-> adaptiveBufferSize]
    /\ UNCHANGED <<fadeInLength, jbSampleRate, jbNumberOfChannels, workerPort, underruns>>

\* reset()
reset ==
    /\ audioBuffers' = [ch \in 1..Len(audioBuffers) |-> 0]
    /\ isPlaying' = FALSE
    /\ fadeInSamples' = 0
    /\ adaptiveBufferSize' = bufferSize * Scale
    /\ jbCall' = [op |-> "reset", wasPlaying |-> isPlaying,
                   hadFrames |-> (FirstChannelLength(audioBuffers) > 0),
                   hadTarget |-> adaptiveBufferSize]
    /\ UNCHANGED <<fadeInLength, jbSampleRate, jbNumberOfChannels, workerPort, underruns>>

\* port.onmessage {type: "setBufferSize", data}
SetBufferSize(data) ==
    /\ adaptiveBufferSize' = Max(minBuffer * Scale, Min(maxBuffer * Scale, data * Scale))
    /\ jbCall' = [op |-> "setBufferSize"]
    /\ UNCHANGED <<audioBuffers, isPlaying, fadeInSamples, fadeInLength,
                   jbSampleRate, jbNumberOfChannels, workerPort, underruns>>

\* gain numerator (over fadeInLength) applied at a position of the fade counter
Gain(f, flen) == IF f < flen THEN f ELSE flen

\* one output channel of a playing block: channel 1 advances the fade counter once
\* per frame, the other channels read the counter as channel 1 left it
PlayedChannel(ch, bufs, L, f, flen) ==
    IF ch <= Len(bufs) /\ bufs[ch] >= L
       THEN IF ch = 1
               THEN [silent |-> FALSE, len |-> L,
                     gainFirst |-> Gain(f, flen), gainLast |-> Gain(f + L - 1, flen)]
               ELSE [silent |-> FALSE, len |-> L,
                     gainFirst |-> Gain(Min(flen, f + L), flen),
                     gainLast |-> Gain(Min(flen, f + L), flen)]
       ELSE [silent |-> TRUE, len |-> L, gainFirst |-> 0, gainLast |-> 0]

SilentChannel(L) == [silent |-> TRUE, len |-> L, gainFirst |-> 0, gainLast |-> 0]

\* does this process() call take the underrun/silence branch
TakesSilenceBranch(playing, bufferFrames, L) == ~playing \/ bufferFrames < L

ShrinksTarget_AboveTarget(bufferFrames, target) == bufferFrames * Scale > target

\* does the playing branch shrink the target
ShrinksTarget(bufferFrames, target) == bufferFrames * Scale > target * 2

\* process(inputs, outputs, parameters) with outputs[0] of nout channels of L samples
process(nout, L) ==
    LET bufferFrames == FirstChannelLength(audioBuffers)
    IN IF TakesSilenceBranch(isPlaying, bufferFrames, L)
          THEN /\ isPlaying => underruns < MaxUnderruns
               /\ underruns' = IF isPlaying THEN underruns + 1 ELSE underruns
               /\ isPlaying' = FALSE
               /\ adaptiveBufferSize' =
                     IF isPlaying THEN GrowTarget(adaptiveBufferSize) ELSE adaptiveBufferSize
               /\ jbCall' = [op |-> "process", underrun |-> isPlaying, shrunk |-> FALSE,
                             output |-> [ch \in 1..nout |-> SilentChannel(L)]]
               /\ UNCHANGED <<audioBuffers, fadeInSamples, fadeInLength,
                              jbSampleRate, jbNumberOfChannels, workerPort>>
          ELSE /\ jbCall' = [op |-> "process", underrun |-> FALSE,
                             shrunk |-> ShrinksTarget(bufferFrames, adaptiveBufferSize),
                             output |-> [ch \in 1..nout |->
                                 PlayedChannel(ch, audioBuffers, L, fadeInSamples, fadeInLength)]]
               /\ fadeInSamples' = IF fadeInSamples < fadeInLength
                                     THEN Min(fadeInLength, fadeInSamples + L)
                                     ELSE fadeInSamples
               /\ audioBuffers' = [ch \in 1..Len(audioBuffers) |-> Max(0, audioBuffers[ch] - L)]
               /\ adaptiveBufferSize' =
                     IF ShrinksTarget(bufferFrames, adaptiveBufferSize)
                        THEN ShrinkTarget(adaptiveBufferSize)
                        ELSE adaptiveBufferSize
               /\ UNCHANGED <<isPlaying, fadeInLength, jbSampleRate, jbNumberOfChannels,
                              workerPort, underruns>>


(***************************************************************************)
(* Jitter buffer properties                                                *)
(***************************************************************************)

AllSilent(out) == \A ch \in DOMAIN out : out[ch].silent

\* C7: a process() callback that finds isPlaying true and fewer queued frames
\* than the block length writes zeros to every output channel (blockLength
\* samples each), clears isPlaying and sets the target to min(maxBuffer, 1.5 x target).
C7_UnderrunSilenceAndGrowth ==
    [][ (/\ jbCall'.op = "process"
         /\ isPlaying
         /\ FirstChannelLength(audioBuffers) < jbCall'.output[1].len)
        => /\ AllSilent(jbCall'.output)
           /\ \A ch \in DOMAIN jbCall'.output : jbCall'.output[ch].len \in BlockLengths
           /\ ~isPlaying'
           /\ adaptiveBufferSize' = Min(maxBuffer * Scale, (adaptiveBufferSize * 3) \div 2)
           /\ audioBuffers' = audioBuffers ]_jbVars

C7_Witness ==
    /\ jbCall.op = "process"
    /\ jbCall.underrun
    /\ AllSilent(jbCall.output)
    /\ Len(jbCall.output) = 2
    /\ FirstChannelLength(audioBuffers) > 0
    /\ ~isPlaying
    /\ adaptiveBufferSize = (bufferSize * Scale * 3) \div 2

\* C8: isPlaying goes from false to true only in a step after which the queued
\* frame count is at least the target; a process() callback that finds isPlaying
\* false emits silence and leaves it false.
C8_PlaybackGate ==
    [][ /\ (~isPlaying /\ isPlaying')
            => /\ jbCall'.op = "audioData"
               /\ FirstChannelLength(audioBuffers') * Scale >= adaptiveBufferSize'
        /\ (jbCall'.op = "process" /\ ~isPlaying)
            => (~isPlaying' /\ AllSilent(jbCall'.output)) ]_jbVars

C8_Witness ==
    /\ jbCall.op = "audioData"
    /\ jbCall.started
    /\ isPlaying
    /\ fadeInSamples = 0
    /\ adaptiveBufferSize > minBuffer * Scale
    /\ FirstChannelLength(audioBuffers) * Scale >= adaptiveBufferSize

C37_NoShrinkFromHalfMax ==
    [][ /\ FirstChannelLength(audioBuffers)' <= maxBuffer
        /\ (jbCall'.op = "process" /\ adaptiveBufferSize >= (maxBuffer \div 2) * Scale)
              => adaptiveBufferSize' >= adaptiveBufferSize
        /\ adaptiveBufferSize' < adaptiveBufferSize
              => \/ jbCall'.op \in {"reset", "setBufferSize"}
                 \/ adaptiveBufferSize < (maxBuffer \div 2) * Scale
      ]_jbVars

\* a playing callback found the queue trimmed to maxBuffer with the target at
\* exactly half of it, and left the target there
C37_Witness ==
    /\ jbCall.op = "process"
    /\ ~jbCall.underrun
    /\ isPlaying
    /\ FirstChannelLength(audioBuffers) = maxBuffer - 128
    /\ adaptiveBufferSize = (maxBuffer \div 2) * Scale

\* C11: after an explicit reset message, from any reachable jitter-buffer state,
\* every per-channel queue is empty, isPlaying is false and the adaptive target
\* equals the default target (bufferSize, 2048).
C11_ResetRestoresDefaults ==
    [][ jbCall'.op = "reset"
        => /\ Len(audioBuffers') = Len(audioBuffers)
           /\ \A ch \in DOMAIN audioBuffers' : audioBuffers'[ch] = 0
           /\ isPlaying' = FALSE
           /\ adaptiveBufferSize' = 2048 * Scale ]_jbVars

C11_Witness ==
    /\ jbCall.op = "reset"
    /\ jbCall.wasPlaying
    /\ jbCall.hadFrames
    /\ jbCall.hadTarget = maxBuffer * Scale
    /\ Len(audioBuffers) = 1
    /\ audioBuffers[1] = 0
    /\ ~isPlaying
    /\ adaptiveBufferSize = bufferSize * Scale

(***************************************************************************)
(* Receiver: the media worker                                              *)
(***************************************************************************)

Tiers == {"360p", "720p"}
Slots == {"360p", "720p", "audio"}
Qualities == {"360p", "720p", "1080p"}          \* quality field of switchBitrate
FrameTypes == 0..8                               \* byte 4 of a binary message
ConfigVersions == {1, 2}                         \* distinct DecoderConfigs payloads
TextMessages == {"TotalViewerCount", "DecoderConfigs", "publish", "ping"}

VARIABLES
    decoders,             \* videoDecoder360p, videoDecoder720p, audioDecoder: [state, cfg]
    currentVideoDecoder,  \* the tier whose decoder the pointer was taken from
    currentQuality,
    mediaWebsocket,       \* "null" or the socket's readyState
    wsInitialQuality,     \* quality the socket sends in onopen
    cachedConfig,         \* video360pConfig, video720pConfig, audioConfig (0: undefined)
    videoCodecReceived,
    audioCodecReceived,
    keyFrameReceived,
    audioEnabled,
    workletPort,
    keySince,             \* per tier: key frame received since the last reset or switch
    recvCall              \* the handler that ran last, its inputs and its effects

recvVars == <<decoders, currentVideoDecoder, currentQuality, mediaWebsocket,
              wsInitialQuality, cachedConfig, videoCodecReceived, audioCodecReceived,
              keyFrameReceived, audioEnabled, workletPort, keySince, recvCall>>

NoDecoder == [state |-> "none", cfg |-> 0]          \* undefined or null
FreshDecoder == [state |-> "unconfigured", cfg |-> 0]
ConfiguredWith(v) == [state |-> "configured", cfg |-> v]
NoKey == [t \in Tiers |-> FALSE]

RecvInit ==
    /\ decoders = [s \in Slots |-> NoDecoder]
    /\ currentVideoDecoder = "undefined"
    /\ currentQuality = "360p"
    /\ mediaWebsocket = "null"
    /\ wsInitialQuality = "360p"
    /\ cachedConfig = [s \in Slots |-> 0]
    /\ videoCodecReceived = FALSE
    /\ audioCodecReceived = FALSE
    /\ keyFrameReceived = FALSE
    /\ audioEnabled = TRUE
    /\ workletPort = FALSE
    /\ keySince = NoKey
    /\ recvCall = [op |-> "load"]

\* JSON.parse(event.data) of a text message: "publish" and "ping" are not JSON
JSONParseThrows(text) == text \in {"publish", "ping"}

\* VideoDecoder (platform): configure, reset and close throw on a closed decoder,
\* decode throws unless the decoder is configured
NativeThrowsWhenClosed(dec) == dec.state = "closed"
NativeDecodeThrows(dec) == dec.state # "configured"

\* OpusAudioDecoder.reset(): clears the timestamps, keeps the state
OpusReset(dec) == dec

\* VideoDecoder.reset(): back to unconfigured
NativeReset(dec) == FreshDecoder

FrameTier(ft) == IF ft \in {0, 1} THEN "360p" ELSE "720p"
IsKeyType(ft) == ft \in {0, 2}

\* self.onmessage {type: "init"}: initializeDecoders(), setupWebSocket(quality)
WorkerInit(q, port) ==
    /\ recvCall.op = "load"
    /\ decoders' = [s \in Slots |-> FreshDecoder]
    /\ currentVideoDecoder' = "360p"
    /\ mediaWebsocket' = "connecting"
    /\ wsInitialQuality' = q
    /\ workletPort' = port
    /\ recvCall' = [op |-> "init", sent |-> <<>>, posted |-> {"log"}]
    /\ UNCHANGED <<currentQuality, cachedConfig, videoCodecReceived, audioCodecReceived,
                   keyFrameReceived, audioEnabled, keySince>>

\* mediaWebsocket.onopen
WsOpen ==
    /\ mediaWebsocket = "connecting"
    /\ mediaWebsocket' = "open"
    /\ recvCall' = [op |-> "wsOpen", sent |-> <<wsInitialQuality>>, posted |-> {"log"}]
    /\ UNCHANGED <<decoders, currentVideoDecoder, currentQuality, wsInitialQuality,
                   cachedConfig, videoCodecReceived, audioCodecReceived, keyFrameReceived,
                   audioEnabled, workletPort, keySince>>

\* the socket closes (peer or network): handleMediaWsClose
WsClose ==
    /\ mediaWebsocket \in {"connecting", "open"}
    /\ mediaWebsocket' = "closed"
    /\ recvCall' = [op |-> "wsClose", sent |-> <<>>, posted |-> {"connectionClosed"}]
    /\ UNCHANGED <<decoders, currentVideoDecoder, currentQuality, wsInitialQuality,
                   cachedConfig, videoCodecReceived, audioCodecReceived, keyFrameReceived,
                   audioEnabled, workletPort, keySince>>

\* a platform decoder fails (decode error, resource pressure): it closes itself
DecoderError(t) ==
    /\ decoders[t].state = "configured"
    /\ decoders' = [decoders EXCEPT ![t].state = "closed"]
    /\ recvCall' = [op |-> "decoderError", sent |-> <<>>, posted |-> {"error"}]
    /\ UNCHANGED <<currentVideoDecoder, currentQuality, mediaWebsocket, wsInitialQuality,
                   cachedConfig, videoCodecReceived, audioCodecReceived, keyFrameReceived,
                   audioEnabled, workletPort, keySince>>

\* handleMediaWsMessage, text branch, type DecoderConfigs with version v.  The three
\* configs are cached first; a configure() on a closed or missing decoder throws and
\* abandons the rest of the handler.
RecvDecoderConfigs(v) ==
    LET applies == ~videoCodecReceived \/ ~audioCodecReceived
        ok360 == decoders["360p"].state \in {"unconfigured", "configured"}
        ok720 == decoders["720p"].state \in {"unconfigured", "configured"}
        okAudio == decoders["audio"].state # "none"
        done == ok360 /\ ok720 /\ okAudio
    IN /\ mediaWebsocket = "open"
       /\ IF ~applies
             THEN /\ recvCall' = [op |-> "text", text |-> "DecoderConfigs", applied |-> FALSE,
                                  threw |-> FALSE, decode |-> "none", decState |-> "n/a",
                                  recreated |-> FALSE, sent |-> <<>>, posted |-> {}]
                  /\ UNCHANGED <<decoders, cachedConfig, videoCodecReceived, audioCodecReceived>>
             ELSE /\ cachedConfig' = [s \in Slots |-> v]
                  /\ decoders' = [s \in Slots |->
                        CASE s = "360p" -> IF ok360 THEN ConfiguredWith(v) ELSE decoders[s]
                          [] s = "720p" -> IF ok360 /\ ok720 THEN ConfiguredWith(v) ELSE decoders[s]
                          [] OTHER -> IF done THEN ConfiguredWith(v) ELSE decoders[s]]
                  /\ videoCodecReceived' = IF done THEN TRUE ELSE videoCodecReceived
                  /\ audioCodecReceived' = IF done THEN TRUE ELSE audioCodecReceived
                  /\ recvCall' = [op |-> "text", text |-> "DecoderConfigs", applied |-> done,
                                  threw |-> ~done,
                                  decode |-> IF done THEN "audio" ELSE "none",
                                  decState |-> IF done THEN "configured" ELSE "n/a",
                                  recreated |-> FALSE, sent |-> <<>>,
                                  posted |-> IF done THEN {"codecReceived"} ELSE {}]
       /\ UNCHANGED <<currentVideoDecoder, currentQuality, mediaWebsocket, wsInitialQuality,
                      keyFrameReceived, audioEnabled, workletPort, keySince>>

\* the effect of the "publish" branch (lines 401-409), reached only if the parse succeeds
PublishEffect(decs) ==
    [s \in Slots |-> IF s = "audio" THEN OpusReset(decs[s]) ELSE NativeReset(decs[s])]

\* handleMediaWsMessage, text branch, any other text
RecvText(text) ==
    /\ mediaWebsocket = "open"
    /\ text # "DecoderConfigs"
    /\ IF JSONParseThrows(text)
          THEN /\ recvCall' = [op |-> "text", text |-> text, applied |-> FALSE, threw |-> TRUE,
                               decode |-> "none", decState |-> "n/a", recreated |-> FALSE,
                               sent |-> <<>>, posted |-> {}]
               /\ UNCHANGED <<decoders, videoCodecReceived, audioCodecReceived,
                              keyFrameReceived, keySince>>
          ELSE IF text = "publish"
                  THEN LET throws == \E t \in Tiers : decoders[t].state \in {"closed", "none"}
                       IN /\ recvCall' = [op |-> "text", text |-> text, applied |-> ~throws,
                                          threw |-> throws, decode |-> "none", decState |-> "n/a",
                                          recreated |-> FALSE, sent |-> <<>>, posted |-> {}]
                          /\ decoders' = IF throws THEN decoders ELSE PublishEffect(decoders)
                          /\ videoCodecReceived' = IF throws THEN videoCodecReceived ELSE FALSE
                          /\ audioCodecReceived' = IF throws THEN audioCodecReceived ELSE FALSE
                          /\ keyFrameReceived' = IF throws THEN keyFrameReceived ELSE FALSE
                          /\ keySince' = IF throws THEN keySince ELSE NoKey
                  ELSE /\ recvCall' = [op |-> "text", text |-> text, applied |-> FALSE,
                                       threw |-> FALSE, decode |-> "none", decState |-> "n/a",
                                       recreated |-> FALSE, sent |-> <<>>,
                                       posted |-> IF text = "TotalViewerCount"
                                                     THEN {"TotalViewerCount"} ELSE {}]
                       /\ UNCHANGED <<decoders, videoCodecReceived, audioCodecReceived,
                                      keyFrameReceived, keySince>>
    /\ UNCHANGED <<currentVideoDecoder, currentQuality, mediaWebsocket, wsInitialQuality,
                   cachedConfig, audioEnabled, workletPort>>

ReviveIfClosed_Never(dec, cfg) == dec

\* "if (decoder.state === 'closed') { decoder = new ...; decoder.configure(cached) }"
ReviveIfClosed(dec, cfg) ==
    IF dec.state = "closed" THEN ConfiguredWith(cfg) ELSE dec

\* the delta gate of a video branch
PassesKeyGate(isKey, kfr) == isKey \/ kfr

\* handleMediaWsMessage, binary branch, frame types 0-3
RecvVideoFrame(ft) ==
    LET t == FrameTier(ft)
        kfr == IF IsKeyType(ft) THEN TRUE ELSE keyFrameReceived
        dec == decoders[t]
        revived == ReviveIfClosed(dec, cachedConfig[t])
    IN /\ mediaWebsocket = "open"
       /\ ft \in 0..3
       /\ keyFrameReceived' = kfr
       /\ keySince' = IF IsKeyType(ft) THEN [keySince EXCEPT ![t] = TRUE] ELSE keySince
       /\ IF ~PassesKeyGate(IsKeyType(ft), keyFrameReceived)
             THEN /\ recvCall' = [op |-> "frame", ft |-> ft, decode |-> "none", decState |-> "n/a",
                                  recreated |-> FALSE, threw |-> FALSE, sent |-> <<>>, posted |-> {}]
                  /\ UNCHANGED decoders
             ELSE IF dec.state = "none"
                     THEN /\ recvCall' = [op |-> "frame", ft |-> ft, decode |-> "none",
                                          decState |-> "n/a", recreated |-> FALSE, threw |-> TRUE,
                                          sent |-> <<>>, posted |-> {}]
                          /\ UNCHANGED decoders
                     ELSE /\ decoders' = [decoders EXCEPT ![t] = revived]
                          /\ recvCall' = [op |-> "frame", ft |-> ft, decode |-> t,
                                          decState |-> revived.state,
                                          recreated |-> (dec.state = "closed" /\ revived # dec),
                                          threw |-> NativeDecodeThrows(revived),
                                          sent |-> <<>>, posted |-> {}]
       /\ UNCHANGED <<currentVideoDecoder, currentQuality, mediaWebsocket, wsInitialQuality,
                      cachedConfig, videoCodecReceived, audioCodecReceived, audioEnabled,
                      workletPort>>

\* handleMediaWsMessage, binary branch, frame type 6
RecvAudioFrame ==
    LET dec == decoders["audio"]
        revived == ReviveIfClosed(dec, cachedConfig["audio"])
    IN /\ mediaWebsocket = "open"
       /\ IF ~audioEnabled
             THEN /\ recvCall' = [op |-> "frame", ft |-> 6, decode |-> "none", decState |-> "n/a",
                                  recreated |-> FALSE, threw |-> FALSE, sent |-> <<>>, posted |-> {}]
                  /\ UNCHANGED decoders
             ELSE IF dec.state = "none"
                     THEN /\ recvCall' = [op |-> "frame", ft |-> 6, decode |-> "none",
                                          decState |-> "n/a", recreated |-> FALSE, threw |-> TRUE,
                                          sent |-> <<>>, posted |-> {}]
                          /\ UNCHANGED decoders
                     ELSE /\ decoders' = [decoders EXCEPT !["audio"] = revived]
                          /\ recvCall' = [op |-> "frame", ft |-> 6, decode |-> "audio",
                                          decState |-> revived.state,
                                          recreated |-> (dec.state = "closed" /\ revived # dec),
                                          threw |-> FALSE, sent |-> <<>>,
                                          posted |-> IF revived.state = "configured"
                                                        THEN {} ELSE {"error"}]
       /\ UNCHANGED <<currentVideoDecoder, currentQuality, mediaWebsocket, wsInitialQuality,
                      cachedConfig, videoCodecReceived, audioCodecReceived, keyFrameReceived,
                      audioEnabled, workletPort, keySince>>

\* handleMediaWsMessage, binary branch, frame types 4, 5, 7, 8: nothing is decoded
RecvOtherFrame(ft) ==
    /\ mediaWebsocket = "open"
    /\ ft \in {4, 5, 7, 8}
    /\ recvCall' = [op |-> "frame", ft |-> ft, decode |-> "none", decState |-> "n/a",
                    recreated |-> FALSE, threw |-> FALSE, sent |-> <<>>, posted |-> {}]
    /\ UNCHANGED <<decoders, currentVideoDecoder, currentQuality, mediaWebsocket,
                   wsInitialQuality, cachedConfig, videoCodecReceived, audioCodecReceived,
                   keyFrameReceived, audioEnabled, workletPort, keySince>>

\* self.onmessage {type: "toggleAudio"}
ToggleAudio ==
    /\ recvCall.op # "load"
    /\ audioEnabled' = ~audioEnabled
    /\ recvCall' = [op |-> "toggleAudio", sent |-> <<>>, posted |-> {"audio-toggled"}]
    /\ UNCHANGED <<decoders, currentVideoDecoder, currentQuality, mediaWebsocket,
                   wsInitialQuality, cachedConfig, videoCodecReceived, audioCodecReceived,
                   keyFrameReceived, workletPort, keySince>>

KeyFrameAfterSwitch_Kept(kfr) == kfr

\* "keyFrameReceived = false" of handleBitrateSwitch
KeyFrameAfterSwitch(kfr) == FALSE

SocketReady_AnySocket(ws) == ws # "null"

\* the socket test of handleBitrateSwitch
SocketReady(ws) == ws = "open"

\* self.onmessage {type: "switchBitrate", quality}: handleBitrateSwitch(quality)
SwitchBitrate(q) ==
    /\ recvCall.op # "load"
    /\ IF SocketReady(mediaWebsocket)
          THEN /\ currentQuality' = IF q \in Tiers THEN q ELSE currentQuality
               /\ currentVideoDecoder' = IF q \in Tiers THEN q ELSE currentVideoDecoder
               /\ keyFrameReceived' = KeyFrameAfterSwitch(keyFrameReceived)
               /\ keySince' = NoKey
               /\ recvCall' = [op |-> "switchBitrate", quality |-> q, from |-> currentQuality,
                               hadKey |-> keySince, switched |-> TRUE,
                               sent |-> <<q>>, posted |-> {"log", "bitrateChanged"}]
          ELSE /\ recvCall' = [op |-> "switchBitrate", quality |-> q, from |-> currentQuality,
                               hadKey |-> keySince, switched |-> FALSE,
                               sent |-> <<>>, posted |-> {}]
               /\ UNCHANGED <<currentQuality, currentVideoDecoder, keyFrameReceived, keySince>>
    /\ UNCHANGED <<decoders, mediaWebsocket, wsInitialQuality, cachedConfig,
                   videoCodecReceived, audioCodecReceived, audioEnabled, workletPort>>

\* self.onmessage {type: "reset"}: resetWebsocket().  A reset() on a closed video
\* decoder throws after the old socket was dropped and before anything else changed.
ResetWebsocket ==
    LET throws == \E t \in Tiers : NativeThrowsWhenClosed(decoders[t])
        dropped == IF mediaWebsocket \in {"connecting", "open"} THEN "null" ELSE mediaWebsocket
    IN /\ recvCall.op # "load"
       /\ IF throws
             THEN /\ mediaWebsocket' = dropped
                  /\ decoders' = [s \in Slots |->
                        IF s = "360p" /\ decoders[s].state \in {"unconfigured", "configured"}
                           THEN NativeReset(decoders[s]) ELSE decoders[s]]
                  /\ recvCall' = [op |-> "reset", threw |-> TRUE, sent |-> <<>>, posted |-> {}]
                  /\ UNCHANGED <<wsInitialQuality, videoCodecReceived, audioCodecReceived,
                                 keyFrameReceived, keySince>>
             ELSE /\ mediaWebsocket' = "connecting"
                  /\ wsInitialQuality' = "360p"
                  /\ decoders' = [s \in Slots |->
                        IF decoders[s].state = "none" THEN decoders[s]
                        ELSE IF s = "audio" THEN OpusReset(decoders[s])
                        ELSE NativeReset(decoders[s])]
                  /\ videoCodecReceived' = FALSE
                  /\ audioCodecReceived' = FALSE
                  /\ keyFrameReceived' = FALSE
                  /\ keySince' = NoKey
                  /\ recvCall' = [op |-> "reset", threw |-> FALSE, sent |-> <<>>, posted |-> {"log"}]
       /\ UNCHANGED <<currentVideoDecoder, currentQuality, cachedConfig, audioEnabled, workletPort>>

\* self.onmessage {type: "stop"}: stop()
StopWorker ==
    /\ recvCall.op # "load"
    /\ workletPort' = FALSE
    /\ mediaWebsocket' = "null"
    /\ decoders' = [s \in Slots |-> NoDecoder]
    /\ videoCodecReceived' = FALSE
    /\ audioCodecReceived' = FALSE
    /\ keyFrameReceived' = FALSE
    /\ keySince' = NoKey
    /\ recvCall' = [op |-> "stop", sent |-> <<>>, posted |-> {"log"}]
    /\ UNCHANGED <<currentVideoDecoder, currentQuality, wsInitialQuality, cachedConfig,
                   audioEnabled>>

(***************************************************************************)
(* Packet framing: Publisher.createPacketWithHeader and sendOverStream on  *)
(* the sending side, the header parse of handleMediaWsMessage on the       *)
(* receiving side.  Byte sequences are sequences of 0..255.                *)
(***************************************************************************)

\* A timestamp is wider than the checker's integers, so a number is kept in
\* limbs: value = (hi * 65536 + lo) * 1000 + us with lo in 0..65535 and us in
\* 0..999 (hi carries the sign).  A 32-bit quantity has us = 0 and hi in 0..65535.
Wide(hi, lo, us) ==
    LET lo1 == lo + (us \div 1000)
    IN [hi |-> hi + (lo1 \div 65536), lo |-> lo1 % 65536, us |-> us % 1000]

\* a small non-negative integer as a 32-bit quantity
Uint32(n) == Wide(0, n, 0)

WideZero == Wide(0, 0, 0)

\* a - b
WideSub(a, b) == Wide(a.hi - b.hi, a.lo - b.lo, a.us - b.us)

\* Math.floor(a / 1000)
WideFloorDiv1000(a) == [hi |-> a.hi, lo |-> a.lo, us |-> 0]

\* const MAX_TS = 0xffffffff
MAX_TS == Wide(65535, 65535, 0)

\* DataView.setUint32(0, n, false): n modulo 2^32, most significant byte first
setUint32(n) ==
    LET h == n.hi % 65536
    IN <<h \div 256, h % 256, n.lo \div 256, n.lo % 256>>

\* DataView.getUint32(0, false) of the first four bytes
getUint32(bytes) ==
    Wide(bytes[1] * 256 + bytes[2], bytes[3] * 256 + bytes[4], 0)

\* "if (window.videoBaseTimestamp) adjustedTimestamp = timestamp - base"; a zero
\* base stands for every falsy value (null, undefined, 0)
AdjustedTimestamp(timestamp, base) ==
    IF base # WideZero THEN WideSub(timestamp, base) ELSE timestamp

ClampTimestamp_None(ms) == ms

\* "if (safeTimestamp < 0) safeTimestamp = 0; if (safeTimestamp > MAX_TS) ..."
ClampTimestamp(ms) == IF ms.hi < 0 THEN WideZero ELSE IF ms.hi > MAX_TS.hi THEN MAX_TS ELSE ms

\* Math.floor(adjustedTimestamp / 1000), clamped
SafeTimestamp(timestamp, base) ==
    ClampTimestamp(WideFloorDiv1000(AdjustedTimestamp(timestamp, base)))

TypeByte_Shifted(type) == (type + 1) % 256

\* "packet[4] = type" into a Uint8Array
TypeByte(type) == type % 256

\* createPacketWithHeader(data, timestamp, type) with window.videoBaseTimestamp = base
createPacketWithHeader(data, timestamp, type, base) ==
    setUint32(SafeTimestamp(timestamp, base)) \o <<TypeByte(type)>> \o data

\* sendOverStream: 4-byte big-endian length, then the frame bytes
LengthPrefixed(frameBytes) == setUint32(Uint32(Len(frameBytes))) \o frameBytes

\* the reader of a stream takes the length from the prefix and then that many bytes
StripLengthPrefix(out) == SubSeq(out, 5, 4 + getUint32(out).lo)

\* handleMediaWsMessage, binary branch: timestamp, frameType, data
ParseHeader(message) ==
    [timestamp |-> getUint32(message),
     frameType |-> message[5],
     data |-> SubSeq(message, 6, Len(message))]

\* inputs of the framing functions (microseconds): 0, 999, 1000, 1999, 7000,
\* 0xFFFFFFFF ms, 0xFFFFFFFF ms + 999 us, 2^32 ms, and a far larger value
PacketTimestamps == {Wide(0, 0, 0), Wide(0, 0, 999), Wide(0, 1, 0), Wide(0, 1, 999),
                     Wide(0, 7, 0), Wide(65535, 65535, 0), Wide(65535, 65535, 999),
                     Wide(65536, 0, 0), Wide(2000000, 0, 0)}

\* bases: unset, -3000, 1000, 1500, 9000 microseconds
PacketBases == {WideZero, Wide(0, -3, 0), Wide(0, 1, 0), Wide(0, 1, 500), Wide(0, 9, 0)}

PacketTypes == {0, 3, 6, 7, 8}

PacketPayloads == {<<>>, <<79>>, <<255, 0, 7>>}

VARIABLES
    pktIn,      \* [data, timestamp, type, base] handed to createPacketWithHeader
    pktStage,   \* "idle", "input", "packet", "sent", "parsed"
    pktBytes,   \* the packet, then the bytes on the stream
    pktParsed   \* what the receiver read from the header

pktVars == <<pktIn, pktStage, pktBytes, pktParsed>>

NoPacketInput == [data |-> <<>>, timestamp |-> WideZero, type |-> 0, base |-> WideZero]

NoParse == [timestamp |-> WideZero, frameType |-> 0, data |-> <<>>]

\* no packet in hand
PktIdle ==
    /\ pktIn = NoPacketInput
    /\ pktStage = "idle"
    /\ pktBytes = <<>>
    /\ pktParsed = NoParse

\* a chunk with its timestamp and type, and the base of the moment
PktInputs ==
    /\ pktIn \in [data : PacketPayloads, timestamp : PacketTimestamps,
                  type : PacketTypes, base : PacketBases]
    /\ pktStage = "input"
    /\ pktBytes = <<>>
    /\ pktParsed = NoParse

EncodePacket ==
    /\ pktStage = "input"
    /\ pktBytes' = createPacketWithHeader(pktIn.data, pktIn.timestamp, pktIn.type, pktIn.base)
    /\ pktStage' = "packet"
    /\ UNCHANGED <<pktIn, pktParsed>>

SendPacket ==
    /\ pktStage = "packet"
    /\ pktBytes' = LengthPrefixed(pktBytes)
    /\ pktStage' = "sent"
    /\ UNCHANGED <<pktIn, pktParsed>>

ReceivePacket ==
    /\ pktStage = "sent"
    /\ pktParsed' = ParseHeader(StripLengthPrefix(pktBytes))
    /\ pktStage' = "parsed"
    /\ UNCHANGED <<pktIn, pktBytes>>

\* the value the header must carry: floor((timestamp - base) / 1000) brought into
\* [0, 0xFFFFFFFF]
ExpectedHeaderMs(timestamp, base) ==
    LET d == WideSub(timestamp, base)
    IN IF d.hi < 0 THEN Wide(0, 0, 0)
       ELSE IF d.hi >= 65536 THEN Wide(65535, 65535, 0)
       ELSE Wide(d.hi, d.lo, 0)

\* C12: packet encoding never throws and never wraps: for any timestamp and base
\* the 32-bit header timestamp is floor((timestamp - base)/1000) clamped into
\* [0, 0xFFFFFFFF], in a packet of 5 + payload bytes.
C12_HeaderTimestampClamped ==
    pktStage = "packet"
        => /\ Len(pktBytes) = 5 + Len(pktIn.data)
           /\ \A i \in 1..5 : pktBytes[i] \in 0..255
           /\ getUint32(pktBytes) = ExpectedHeaderMs(pktIn.timestamp, pktIn.base)

C12_Witness ==
    /\ pktStage = "packet"
    /\ pktIn.timestamp = Wide(65536, 0, 0)
    /\ pktIn.base = Wide(0, -3, 0)
    /\ getUint32(pktBytes) = MAX_TS

\* C13: round trip.  For any payload bytes, frame type and timestamp, stripping the
\* 4-byte big-endian length prefix and parsing the 5-byte header of an encoded
\* packet yields the same frame type and payload and the millisecond timestamp the
\* header was given; for a timestamp that is an exact multiple of 1000 microseconds,
\* in range and with no base set, that is the timestamp itself in milliseconds.
C13_RoundTrip ==
    pktStage = "parsed"
        => /\ pktParsed.frameType = pktIn.type
           /\ pktParsed.data = pktIn.data
           /\ pktParsed.timestamp = ExpectedHeaderMs(pktIn.timestamp, pktIn.base)
           /\ (/\ pktIn.timestamp.us = 0
               /\ pktIn.base = WideZero
               /\ pktIn.timestamp.hi \in 0..65535)
                => pktParsed.timestamp = pktIn.timestamp

C13_Witness ==
    /\ pktStage = "parsed"
    /\ pktIn.data = <<255, 0, 7>>
    /\ pktIn.type = 7
    /\ pktIn.timestamp = Wide(65535, 65535, 0)
    /\ pktIn.base = WideZero
    /\ pktParsed = [timestamp |-> Wide(65535, 65535, 0), frameType |-> 7, data |-> <<255, 0, 7>>]
    /\ Len(pktBytes) = 12

(***************************************************************************)
(* Publisher (src/src/index.js): per-channel WebTransport streams, the     *)
(* video encoders' output callback, the Opus recorder's data callback and  *)
(* the StreamConfig handshake that gates media.                            *)
(***************************************************************************)

\* number of encoded chunks (video and audio together) the encoders deliver
MaxChunks == 3

PubChannels == {"cam_720p", "cam_360p", "screen_share_1080p", "mic_48k"}

\* subStreams: encoder name -> channel name, for the entries that get an encoder
EncoderChannel == [high |-> "cam_720p", low |-> "cam_360p", screen |-> "screen_share_1080p"]

EncoderNames == DOMAIN EncoderChannel

\* the encoders that are fed camera frames: channelName.startsWith("cam")
CameraEncoders == {q \in EncoderNames : EncoderChannel[q] \in {"cam_720p", "cam_360p"}}

\* setupConnection opens a stream for every sub-stream that is not a screen share
ConnectedChannels == {"cam_720p", "cam_360p", "mic_48k"}

ChunkIds == 1..MaxChunks

\* frames the capture loop reads while the frame counter is below this
MaxFrames == 60

\* frames encoded per session in the specification that follows the chunk handlers
MaxTimedFrames == 1

\* frame.timestamp of a captured frame, microseconds
FrameTimestamps == {3000}

\* performance.now() * 1000 when the first Opus page arrives, microseconds
PerformanceNowUs == {7000}

VARIABLES
    isPublishing,     \* this.isPublishing
    isChannelOpen,    \* this.isChannelOpen
    micEnabled,       \* this.micEnabled
    cameraEnabled,    \* this.cameraEnabled
    publishStreams,   \* this.publishStreams: channel -> [exists, configSent, config]
    videoEncoders,    \* this.videoEncoders: name -> [exists, metadataReady]
    audioProcessor,   \* this.audioProcessor is set (the recorder delivers data)
    sequenceNumber,   \* this.sequenceNumber
    configWrite,      \* channel -> a sendStreamConfig call is awaiting its write
    wire,             \* channel -> the payloads handed to writer.write, in order
    nextChunk,        \* id of the next chunk an encoder delivers
    videoBaseTimestamp,  \* window.videoBaseTimestamp (0: null or 0)
    opusBaseTime,        \* this.opusBaseTime
    opusSamplesSent,     \* this.opusSamplesSent
    frameCounter,        \* frameCounter of the capture loop
    encodeQueueSize,     \* encoder name -> encoder.encodeQueueSize
    lastFrameTimestamp,  \* frame.timestamp of the frame read last
    writerClosed,     \* channel -> writer.close() was called on the stream's writer
    dropped,          \* channel -> ids of the chunks a handler returned on without writing
    pubCall           \* the last handler that ran, with its input and what it did

\* timestamps and the capture loop
captureVars == <<videoBaseTimestamp, opusBaseTime, opusSamplesSent, frameCounter,
                 encodeQueueSize, lastFrameTimestamp>>

pubVars == <<isPublishing, isChannelOpen, micEnabled, cameraEnabled, publishStreams,
             videoEncoders, audioProcessor, sequenceNumber, configWrite, wire,
             nextChunk, dropped, pubCall, captureVars, writerClosed>>

NoStream == [exists |-> FALSE, configSent |-> FALSE, config |-> FALSE]

\* createBidirectionalStream: {writer, reader, configSent: false, config: null}
NewStream == [exists |-> TRUE, configSent |-> FALSE, config |-> FALSE]

NoEncoder == [exists |-> FALSE, metadataReady |-> FALSE]

\* initVideoEncoders: {encoder, ..., metadataReady: false, videoDecoderConfig: null}
NewEncoder == [exists |-> TRUE, metadataReady |-> FALSE]

PubInit ==
    /\ isPublishing = FALSE
    /\ isChannelOpen = FALSE
    /\ micEnabled = TRUE
    /\ cameraEnabled = TRUE
    /\ publishStreams = [c \in PubChannels |-> NoStream]
    /\ videoEncoders = [q \in EncoderNames |-> NoEncoder]
    /\ audioProcessor = FALSE
    /\ sequenceNumber = 0
    /\ configWrite = [c \in PubChannels |-> FALSE]
    /\ wire = [c \in PubChannels |-> <<>>]
    /\ nextChunk = 1
    /\ dropped = [c \in PubChannels |-> {}]
    /\ pubCall = [op |-> "new"]
    /\ videoBaseTimestamp = 0
    /\ opusBaseTime = 0
    /\ opusSamplesSent = 0
    /\ frameCounter = 0
    /\ encodeQueueSize = [q \in EncoderNames |-> 0]
    /\ lastFrameTimestamp = 0
    /\ writerClosed = [c \in PubChannels |-> FALSE]

\* the type byte handleVideoChunk puts in the packet header
VideoPacketType(channelName, isKey) ==
    CASE channelName = "cam_360p" -> IF isKey THEN 0 ELSE 1
      [] channelName = "cam_720p" -> IF isKey THEN 2 ELSE 3
      [] channelName = "screen_share_1080p" -> IF isKey THEN 4 ELSE 5
      [] OTHER -> 8

ChannelNamePayload_Media ==
    [kind |-> "media", id |-> 0, header |-> FALSE, type |-> 0, ts |-> 0, lengthPrefix |-> FALSE]

\* new TextEncoder().encode(channelName): the bytes of the name, no packet header
ChannelNamePayload ==
    [kind |-> "channelName", id |-> 0, header |-> FALSE, type |-> 0, ts |-> 0,
     lengthPrefix |-> FALSE]

\* new TextEncoder().encode(JSON.stringify(configPacket)): the JSON, no packet header
ConfigPayload ==
    [kind |-> "StreamConfig", id |-> 0, header |-> FALSE, type |-> 0, ts |-> 0,
     lengthPrefix |-> FALSE]

\* createPacketWithHeader(chunk, timestamp, type): header timestamp ms and type byte
MediaPayload(id, type, timestamp, base) ==
    [kind |-> "media", id |-> id, header |-> TRUE, type |-> TypeByte(type),
     ts |-> SafeTimestamp(Wide(0, 0, timestamp), Wide(0, 0, base)).lo,
     lengthPrefix |-> FALSE]

sendOverStream_Bare(w, streams, channelName, payload) ==
    IF streams[channelName].exists
    THEN [w EXCEPT ![channelName] = Append(@, payload)]
    ELSE w

\* sendOverStream: returns when the stream is not in the map, else writer.write of
\* the 4-byte length followed by the frame bytes
sendOverStream(w, streams, channelName, payload) ==
    IF streams[channelName].exists
    THEN [w EXCEPT ![channelName] = Append(@, [payload EXCEPT !.lengthPrefix = TRUE])]
    ELSE w

\* sendStreamConfig returns at once when the stream is missing or configSent
StartsConfigWrite(streamData) == streamData.exists /\ ~streamData.configSent

MayWriteMedia_Always(streamData) == TRUE

NeedsAudioConfig_IgnoresPending(streamData) == ~streamData.configSent

\* "if (!streamData.configSent && !streamData.config)" of handleOpusAudioChunk
NeedsAudioConfig(streamData) == ~streamData.configSent /\ ~streamData.config

\* "if (!streamData.configSent) return;" and "if (streamData.configSent) {...}"
MayWriteMedia(streamData) == streamData.configSent

\* startPublishing: setupConnection (a stream per connected channel, each opened
\* with its channel name), getMediaStream, startStreaming (encoders, recorder)
StartPublishing ==
    /\ ~isPublishing
    /\ publishStreams' = [c \in PubChannels |->
                            IF c \in ConnectedChannels THEN NewStream ELSE publishStreams[c]]
    /\ wire' = [c \in PubChannels |->
                  IF c \in ConnectedChannels
                  THEN sendOverStream([x \in PubChannels |-> <<>>], publishStreams', c,
                                      ChannelNamePayload)[c]
                  ELSE wire[c]]
    /\ isChannelOpen' = TRUE
    /\ isPublishing' = TRUE
    /\ videoEncoders' = [q \in EncoderNames |-> NewEncoder]
    /\ audioProcessor' = TRUE
    /\ frameCounter' = 0
    /\ encodeQueueSize' = [q \in EncoderNames |-> 0]
    /\ pubCall' = [op |-> "startPublishing"]
    /\ writerClosed' = [c \in PubChannels |->
                          IF c \in ConnectedChannels THEN FALSE ELSE writerClosed[c]]
    /\ UNCHANGED <<micEnabled, cameraEnabled, sequenceNumber, configWrite, nextChunk, dropped,
                   videoBaseTimestamp, opusBaseTime, opusSamplesSent, lastFrameTimestamp>>

\* VideoEncoder output callback: handleVideoChunk(chunk, metadata, quality, channelName),
\* once the capture loop encoded a frame; the chunk carries the timestamp of the
\* frame read last
handleVideoChunk(quality, isKey, hasDecoderConfig) ==
    LET channelName == EncoderChannel[quality]
        timestamp == lastFrameTimestamp
        encoderObj == videoEncoders[quality]
        streamData == publishStreams[channelName]
        id == nextChunk
    IN  /\ nextChunk <= MaxChunks
        /\ encoderObj.exists
        /\ frameCounter > 0
        /\ nextChunk' = nextChunk + 1
        /\ IF ~streamData.exists
           THEN /\ dropped' = [dropped EXCEPT ![channelName] = @ \cup {id}]
                /\ pubCall' = [op |-> "videoChunk", ch |-> channelName, id |-> id,
                               wrote |-> FALSE, configStarted |-> FALSE]
                /\ UNCHANGED <<videoEncoders, configWrite, wire, sequenceNumber>>
           ELSE LET firstConfig == hasDecoderConfig /\ ~encoderObj.metadataReady
                    starts == firstConfig /\ StartsConfigWrite(streamData)
                    afterConfig == IF starts
                                   THEN sendOverStream(wire, publishStreams, channelName, ConfigPayload)
                                   ELSE wire
                    writes == MayWriteMedia(streamData)
                IN  /\ videoEncoders' = IF firstConfig
                                        THEN [videoEncoders EXCEPT ![quality].metadataReady = TRUE]
                                        ELSE videoEncoders
                    /\ configWrite' = IF starts
                                      THEN [configWrite EXCEPT ![channelName] = TRUE]
                                      ELSE configWrite
                    /\ wire' = IF writes
                               THEN sendOverStream(afterConfig, publishStreams, channelName,
                                        MediaPayload(id, VideoPacketType(channelName, isKey),
                                                     timestamp, videoBaseTimestamp))
                               ELSE afterConfig
                    /\ sequenceNumber' = IF writes THEN sequenceNumber + 1 ELSE sequenceNumber
                    /\ dropped' = IF writes THEN dropped
                                  ELSE [dropped EXCEPT ![channelName] = @ \cup {id}]
                    /\ pubCall' = [op |-> "videoChunk", ch |-> channelName, id |-> id,
                                   wrote |-> writes, configStarted |-> starts]
        /\ UNCHANGED <<isPublishing, isChannelOpen, micEnabled, cameraEnabled,
                       publishStreams, audioProcessor, captureVars, writerClosed>>

\* recorder ondataavailable: handleOpusAudioChunk(typedArray, "mic_48k");
\* empty: byteLength 0, isOgg: the data starts with "OggS", now: performance.now() * 1000
handleOpusAudioChunk(empty, isOgg, now) ==
    LET channelName == "mic_48k"
        streamData == publishStreams[channelName]
        id == nextChunk
        handled == micEnabled /\ isChannelOpen /\ ~empty /\ streamData.exists /\ isOgg
        starts == handled /\ NeedsAudioConfig(streamData) /\ StartsConfigWrite(streamData)
        baseTime == IF opusBaseTime # 0 THEN opusBaseTime
                    ELSE IF videoBaseTimestamp # 0 THEN videoBaseTimestamp ELSE now
        timestamp == baseTime + ((opusSamplesSent * 1000000) \div 48000)
        afterConfig == IF starts
                       THEN sendOverStream(wire, publishStreams, channelName, ConfigPayload)
                       ELSE wire
        writes == handled /\ MayWriteMedia(streamData)
    IN  /\ nextChunk <= MaxChunks
        /\ audioProcessor
        /\ nextChunk' = nextChunk + 1
        /\ opusBaseTime' = IF handled THEN baseTime ELSE opusBaseTime
        /\ opusSamplesSent' = IF handled /\ opusBaseTime = 0 THEN 0 ELSE opusSamplesSent
        /\ publishStreams' = IF handled /\ NeedsAudioConfig(streamData)
                             THEN [publishStreams EXCEPT ![channelName].config = TRUE]
                             ELSE publishStreams
        /\ configWrite' = IF starts THEN [configWrite EXCEPT ![channelName] = TRUE]
                          ELSE configWrite
        /\ wire' = IF writes
                   THEN sendOverStream(afterConfig, publishStreams, channelName,
                                       MediaPayload(id, 6, timestamp, videoBaseTimestamp))
                   ELSE afterConfig
        /\ dropped' = IF writes THEN dropped
                      ELSE [dropped EXCEPT ![channelName] = @ \cup {id}]
        /\ pubCall' = [op |-> "audioChunk", ch |-> channelName, id |-> id,
                       wrote |-> writes, configStarted |-> starts,
                       valid |-> (~empty /\ isOgg), timestamp |-> timestamp]
        /\ UNCHANGED <<isPublishing, isChannelOpen, micEnabled, cameraEnabled,
                       videoEncoders, audioProcessor, sequenceNumber, videoBaseTimestamp,
                       frameCounter, encodeQueueSize, lastFrameTimestamp, writerClosed>>

\* sendStreamConfig after "await this.sendOverStream(channelName, packet)":
\* the write resolved (configSent = true, config = config) or rejected (logged)
sendStreamConfig(channelName, ok) ==
    /\ configWrite[channelName]
    /\ configWrite' = [configWrite EXCEPT ![channelName] = FALSE]
    /\ publishStreams' = IF ok
                         THEN [publishStreams EXCEPT ![channelName].configSent = TRUE,
                                                     ![channelName].config = TRUE]
                         ELSE publishStreams
    /\ pubCall' = [op |-> "configDone", ch |-> channelName, ok |-> ok]
    /\ UNCHANGED writerClosed
    /\ UNCHANGED <<isPublishing, isChannelOpen, micEnabled, cameraEnabled, videoEncoders,
                   audioProcessor, sequenceNumber, wire, nextChunk, dropped, captureVars>>

toggleMic_StopsRecorder ==
    /\ micEnabled' = ~micEnabled
    /\ audioProcessor' = micEnabled'
    /\ pubCall' = [op |-> "toggleMic"]
    /\ UNCHANGED writerClosed
    /\ UNCHANGED <<isPublishing, isChannelOpen, cameraEnabled, publishStreams, videoEncoders,
                   sequenceNumber, configWrite, wire, nextChunk, dropped, captureVars>>

\* toggleMic: turnOffMic / turnOnMic, only the flag changes
toggleMic ==
    /\ micEnabled' = ~micEnabled
    /\ pubCall' = [op |-> "toggleMic"]
    /\ UNCHANGED writerClosed
    /\ UNCHANGED <<isPublishing, isChannelOpen, cameraEnabled, publishStreams, videoEncoders,
                   audioProcessor, sequenceNumber, configWrite, wire, nextChunk, dropped,
                   captureVars>>

toggleCamera ==
    /\ cameraEnabled' = ~cameraEnabled
    /\ pubCall' = [op |-> "toggleCamera"]
    /\ UNCHANGED writerClosed
    /\ UNCHANGED <<isPublishing, isChannelOpen, micEnabled, publishStreams, videoEncoders,
                   audioProcessor, sequenceNumber, configWrite, wire, nextChunk, dropped,
                   captureVars>>

\* stop(): encoders closed and cleared, recorder stopped, writers closed and the
\* map cleared. A sendStreamConfig still awaiting its write keeps the stream
\* object it read before the map was cleared, so its outcome reaches no stream
\* of the map any more.
stop ==
    /\ isPublishing
    /\ isPublishing' = FALSE
    /\ videoEncoders' = [q \in EncoderNames |-> NoEncoder]
    /\ audioProcessor' = FALSE
    /\ publishStreams' = [c \in PubChannels |-> NoStream]
    /\ configWrite' = [c \in PubChannels |-> FALSE]
    /\ isChannelOpen' = FALSE
    /\ sequenceNumber' = 0
    /\ opusBaseTime' = 0
    /\ opusSamplesSent' = 0
    /\ videoBaseTimestamp' = 0
    /\ encodeQueueSize' = [q \in EncoderNames |-> 0]
    /\ pubCall' = [op |-> "stop"]
    /\ writerClosed' = [c \in PubChannels |-> writerClosed[c] \/ publishStreams[c].exists]
    /\ UNCHANGED <<micEnabled, cameraEnabled, wire, nextChunk, dropped, frameCounter,
                   lastFrameTimestamp>>

\* the last entry of cameraEncoders (the order of this.subStreams): it is handed
\* the frame itself, the others a copy, "new VideoFrame(frame)"
LastCameraEncoder == "low"

QueueHasRoom_Loose(queueSize) == queueSize <= 3

\* "if (encoderObj.encoder.encodeQueueSize <= 2)" of the capture loop
QueueHasRoom(queueSize) == queueSize <= 2

\* one turn of the capture loop of startVideoCapture: a frame with timestamp ts is read
CaptureFrame(ts) ==
    LET keyFrame == (frameCounter + 1) % 30 = 0
        encodes == IF cameraEnabled
                   THEN {q \in CameraEncoders : QueueHasRoom(encodeQueueSize[q])}
                   ELSE {}
    IN  /\ isPublishing
        /\ frameCounter < MaxFrames
        /\ ts >= lastFrameTimestamp
        /\ lastFrameTimestamp' = ts
        /\ videoBaseTimestamp' = IF videoBaseTimestamp = 0 THEN ts ELSE videoBaseTimestamp
        /\ frameCounter' = IF cameraEnabled THEN frameCounter + 1 ELSE frameCounter
        /\ encodeQueueSize' = [q \in EncoderNames |->
                                 IF q \in encodes THEN encodeQueueSize[q] + 1
                                 ELSE encodeQueueSize[q]]
        /\ pubCall' = [op |-> "frame", cameraEnabled |-> cameraEnabled,
                       keyFrame |-> (cameraEnabled /\ keyFrame), encoded |-> encodes,
                       queueBefore |-> encodeQueueSize, reported |-> FALSE,
                       frameClosed |-> (~cameraEnabled \/ LastCameraEncoder \in encodes),
                       copies |-> encodes \ {LastCameraEncoder},
                       copiesClosed |-> encodes \ {LastCameraEncoder}]
        /\ UNCHANGED <<isPublishing, isChannelOpen, micEnabled, cameraEnabled, publishStreams,
                       videoEncoders, audioProcessor, sequenceNumber, configWrite, wire,
                       nextChunk, dropped, opusBaseTime, opusSamplesSent, writerClosed>>

\* the platform encoder takes a queued frame: encodeQueueSize goes down by one
EncoderDequeue(q) ==
    /\ encodeQueueSize[q] > 0
    /\ encodeQueueSize' = [encodeQueueSize EXCEPT ![q] = @ - 1]
    /\ pubCall' = [op |-> "dequeue", q |-> q]
    /\ UNCHANGED writerClosed
    /\ UNCHANGED <<isPublishing, isChannelOpen, micEnabled, cameraEnabled, publishStreams,
                   videoEncoders, audioProcessor, sequenceNumber, configWrite, wire,
                   nextChunk, dropped, videoBaseTimestamp, opusBaseTime, opusSamplesSent,
                   frameCounter, lastFrameTimestamp>>

\* the promise of a media write on the channel rejects: sendOverStream logs the
\* error and rethrows; handleVideoChunk and handleOpusAudioChunk do not await it
WriteRejected(channelName) ==
    /\ publishStreams[channelName].exists
    /\ \E i \in DOMAIN wire[channelName] : wire[channelName][i].kind = "media"
    /\ pubCall' = [op |-> "writeRejected", ch |-> channelName]
    /\ UNCHANGED <<isPublishing, isChannelOpen, micEnabled, cameraEnabled, publishStreams,
                   videoEncoders, audioProcessor, sequenceNumber, configWrite, wire,
                   nextChunk, dropped, captureVars, writerClosed>>

\* ids of the media packets handed to a channel's writer
WrittenIds(channelName) ==
    {wire[channelName][i].id : i \in {j \in DOMAIN wire[channelName] : wire[channelName][j].kind = "media"}}

\* a StreamConfig was handed to the channel's writer
ConfigOnWire(w, channelName) ==
    \E i \in DOMAIN w[channelName] : w[channelName][i].kind = "StreamConfig"

\* C1: the Publisher writes a media packet on a channel only in a state where
\* the channel's configSent is true, i.e. after the channel's StreamConfig write
\* completed; a chunk delivered while configSent is false is discarded and is
\* never written later.
C1_MediaOnlyAfterConfigSent ==
    [][ pubCall'.op \in {"videoChunk", "audioChunk"}
        => LET ch == pubCall'.ch
           IN /\ pubCall'.wrote
                   => /\ publishStreams[ch].configSent
                      /\ ~configWrite[ch]
                      /\ ConfigOnWire(wire, ch)
                      /\ Len(wire'[ch]) = Len(wire[ch]) + 1
                      /\ SubSeq(wire'[ch], 1, Len(wire[ch])) = wire[ch]
                      /\ wire'[ch][Len(wire'[ch])].kind = "media"
                      /\ wire'[ch][Len(wire'[ch])].id = pubCall'.id
              /\ (~publishStreams[ch].configSent)
                   => /\ pubCall'.id \in dropped'[ch]
                      /\ \A i \in DOMAIN wire'[ch] :
                            i > Len(wire[ch]) => wire'[ch][i].kind = "StreamConfig"
              /\ \A c \in PubChannels : dropped'[c] \cap WrittenIds(c)' = {} ]_pubVars

C1_Witness ==
    /\ pubCall.op \in {"videoChunk", "audioChunk"}
    /\ pubCall.wrote
    /\ dropped[pubCall.ch] # {}
    /\ pubCall.id \in WrittenIds(pubCall.ch)
    /\ \E c \in PubChannels \ {pubCall.ch} : configWrite[c] /\ dropped[c] # {}

\* C14: on each channel the header timestamps of successively written media
\* packets are monotonically non-decreasing (capture timestamps are non-decreasing),
\* under every interleaving of frame capture and audio-chunk callbacks, including
\* across the moment the shared video base timestamp is first set.
C14_HeaderTimestampsMonotonic ==
    \A c \in PubChannels :
        \A i, j \in DOMAIN wire[c] :
            (i < j /\ wire[c][i].kind = "media" /\ wire[c][j].kind = "media")
                => wire[c][i].ts <= wire[c][j].ts

\* number of StreamConfig messages handed to the channel's writer
ConfigCount(w, channelName) ==
    Cardinality({i \in DOMAIN w[channelName] : w[channelName][i].kind = "StreamConfig"})

\* C15: for each channel at most one StreamConfig message is ever written to its
\* stream, under any interleaving of encoder output callbacks with a config write
\* that is still pending; once the channel's configSent is true no handler writes
\* a StreamConfig on it.
C15_AtMostOneStreamConfig ==
    [][ \A c \in PubChannels :
          /\ ConfigCount(wire', c) <= 1
          /\ publishStreams[c].configSent => ConfigCount(wire', c) = ConfigCount(wire, c)
      ]_pubVars

C15_Witness ==
    /\ pubCall.op = "audioChunk"
    /\ ~pubCall.configStarted
    /\ ~pubCall.wrote
    /\ micEnabled
    /\ isChannelOpen
    /\ configWrite["mic_48k"]
    /\ ConfigCount(wire, "mic_48k") = 1
    /\ pubCall.id \in dropped["mic_48k"]

\* C16: the StreamConfig JSON is written to its channel as a packet carrying the
\* 5-byte header with frameType 7, and that packet is then wrapped with the
\* 4-byte length prefix.
C16_ConfigFramedAsType7 ==
    \A c \in PubChannels :
        \A i \in DOMAIN wire[c] :
            wire[c][i].kind = "StreamConfig"
                => /\ wire[c][i].header
                   /\ wire[c][i].type = 7
                   /\ wire[c][i].lengthPrefix

\* C17: on every newly opened media channel the first message written is the
\* handshake carrying the channel name; no StreamConfig and no media packet is
\* written on that channel before the handshake, and the handshake is written once.
C17_HandshakeFirst ==
    \A c \in PubChannels :
        (publishStreams[c].exists \/ wire[c] # <<>>)
            => /\ Len(wire[c]) >= 1
               /\ wire[c][1].kind = "channelName"
               /\ \A i \in DOMAIN wire[c] : i > 1 => wire[c][i].kind # "channelName"

C17_Witness ==
    \E c \in PubChannels :
        /\ publishStreams[c].exists
        /\ Len(wire[c]) >= 3
        /\ wire[c][2].kind = "StreamConfig"
        /\ wire[c][3].kind = "media"

\* C18 as stated: the first bytes written to a newly opened channel are exactly
\* the UTF-8 bytes of the channel name, with no 4-byte length prefix in front of
\* this first message.
C18_Original_HandshakeBare ==
    \A c \in PubChannels :
        wire[c] # <<>> => wire[c][1].kind = "channelName" /\ ~wire[c][1].lengthPrefix

\* C18: the first message written to a newly opened channel is the UTF-8 bytes
\* of the channel name behind the same 4-byte length prefix that every later
\* message of the channel carries.
C18_HandshakeLengthPrefixed ==
    \A c \in PubChannels :
        /\ wire[c] # <<>> => /\ wire[c][1].kind = "channelName"
                             /\ ~wire[c][1].header
                             /\ wire[c][1].lengthPrefix
        /\ \A i \in DOMAIN wire[c] : wire[c][i].lengthPrefix

C18_Witness ==
    /\ pubCall.op = "startPublishing"
    /\ \A c \in ConnectedChannels : Len(wire[c]) = 1 /\ wire[c][1].lengthPrefix
    /\ wire["screen_share_1080p"] = <<>>

\* C19: every 30th frame of the capture loop's one shared frame counter is
\* encoded as a keyframe on all camera quality ladders at that same frame, and
\* no ladder gets a forced keyframe at any other frame, so all ladders have
\* their keyframes at the same instants.
C19_KeyframesOnAllLadders ==
    [][ (pubCall'.op = "frame" /\ pubCall'.cameraEnabled)
            => LET keyed == IF pubCall'.keyFrame THEN pubCall'.encoded ELSE {}
               IN  keyed = IF frameCounter' % 30 = 0 THEN CameraEncoders ELSE {}
      ]_pubVars

C21_DisabledMediaNotSent ==
    [][ /\ pubCall'.op = "frame"
            => IF cameraEnabled
               THEN pubCall'.encoded = {q \in CameraEncoders : encodeQueueSize[q] <= 2}
               ELSE pubCall'.encoded = {} /\ encodeQueueSize' = encodeQueueSize
        /\ pubCall'.op = "audioChunk"
            => IF micEnabled
               THEN (pubCall'.valid /\ isChannelOpen /\ publishStreams["mic_48k"].configSent)
                        => pubCall'.wrote /\ Len(wire'["mic_48k"]) = Len(wire["mic_48k"]) + 1
               ELSE /\ ~pubCall'.wrote
                    /\ ~pubCall'.configStarted
                    /\ wire' = wire
                    /\ UNCHANGED <<publishStreams, configWrite, opusBaseTime>>
        /\ pubCall'.op \in {"toggleMic", "toggleCamera"}
            => UNCHANGED <<isPublishing, isChannelOpen, videoEncoders, audioProcessor,
                           publishStreams, encodeQueueSize, wire>>
      ]_pubVars

C21_Witness ==
    /\ pubCall.op = "audioChunk"
    /\ pubCall.valid
    /\ ~micEnabled
    /\ ~cameraEnabled
    /\ isChannelOpen
    /\ publishStreams["mic_48k"].configSent
    /\ ~pubCall.wrote
    /\ audioProcessor
    /\ \A q \in EncoderNames : videoEncoders[q].exists
    /\ lastFrameTimestamp > 0
    /\ \A q \in CameraEncoders : encodeQueueSize[q] = 0

\* C22: the timestamp of each audio chunk is the anchor plus the accumulated
\* samplesSent / sampleRate, so of two audio chunks written one after the other
\* the later one has a timestamp that advanced with the samples sent before it.
C22_AudioTimestampAdvances ==
    [][ (/\ pubCall.op = "audioChunk" /\ pubCall.wrote
         /\ pubCall'.op = "audioChunk" /\ pubCall'.wrote)
            => /\ pubCall'.timestamp
                    = opusBaseTime' + ((opusSamplesSent' * 1000000) \div 48000)
               /\ pubCall'.timestamp > pubCall.timestamp
      ]_pubVars

\* C23: when a write on a media channel fails, that channel's writer is closed
\* and the write is not retried (nothing is handed to the writer again for it),
\* while every other channel stays in the stream map with its writer open.
C23_FailedWriteClosesWriter ==
    [][ (\/ pubCall'.op = "writeRejected"
         \/ (pubCall'.op = "configDone" /\ ~pubCall'.ok))
            => /\ writerClosed'[pubCall'.ch]
               /\ wire' = wire
               /\ \A c \in PubChannels \ {pubCall'.ch} :
                     /\ publishStreams'[c] = publishStreams[c]
                     /\ writerClosed'[c] = writerClosed[c]
      ]_pubVars

\* the channel's StreamConfig was requested: the encoder's metadataReady flag,
\* or streamData.config for the microphone
ConfigRequested(c) ==
    IF c = "mic_48k" THEN publishStreams[c].config
    ELSE \E q \in EncoderNames : EncoderChannel[q] = c /\ videoEncoders[q].metadataReady

\* the channel's StreamConfig write was started and ended without configSent
ConfigFailed(c) ==
    /\ publishStreams[c].exists
    /\ ConfigRequested(c)
    /\ ~configWrite[c]
    /\ ~publishStreams[c].configSent

\* C32: when a channel's StreamConfig write fails, the channel's configSent
\* stays false for as long as the Publisher is not stopped: no further
\* StreamConfig write is started for it and nothing more is written on it,
\* and no other channel's stream entry is changed by the failure.
C32_FailedConfigSilencesChannel ==
    [][ /\ (pubCall'.op = "configDone" /\ ~pubCall'.ok)
            => \A c \in PubChannels :
                  IF c = pubCall'.ch THEN ConfigFailed(c)'
                  ELSE publishStreams'[c] = publishStreams[c]
        /\ \A c \in PubChannels :
             (ConfigFailed(c) /\ isPublishing')
                => /\ ConfigFailed(c)'
                   /\ wire'[c] = wire[c]
      ]_pubVars

\* after the microphone's StreamConfig failed, a valid Opus page arrived and
\* was neither written nor answered with a second StreamConfig, while a camera
\* channel's own StreamConfig write is under way
C32_Witness ==
    /\ ConfigFailed("mic_48k")
    /\ pubCall.op = "audioChunk"
    /\ pubCall.valid
    /\ ~pubCall.wrote
    /\ ~pubCall.configStarted
    /\ \E c \in PubChannels \ {"mic_48k"} : configWrite[c]

\* C29: every VideoFrame read from the capture reader, and every duplicate made
\* of it, is closed by the end of the loop iteration that read it, whether it
\* was encoded, skipped for backpressure on any ladder, or skipped because the
\* camera is disabled.
C29_EveryFrameClosed ==
    [][ pubCall'.op = "frame"
            => /\ pubCall'.frameClosed
               /\ pubCall'.copiesClosed = pubCall'.copies
      ]_pubVars

\* C30: during jitter-buffer fade-in, for each output frame index every output
\* channel that carries data is scaled by the same gain, and the ramp counter
\* advances by exactly one per emitted output frame (up to the ramp length)
\* regardless of the number of channels.
C30_FadeGainSameOnAllChannels ==
    [][ (jbCall'.op = "process" /\ ~AllSilent(jbCall'.output))
            => /\ \A a, b \in DOMAIN jbCall'.output :
                     (~jbCall'.output[a].silent /\ ~jbCall'.output[b].silent)
                        => /\ jbCall'.output[a].gainFirst = jbCall'.output[b].gainFirst
                           /\ jbCall'.output[a].gainLast = jbCall'.output[b].gainLast
               /\ fadeInSamples' = Min(fadeInLength, fadeInSamples + jbCall'.output[1].len)
      ]_jbVars

(***************************************************************************)
(* Publisher event channel (src/src/index.js): createEventStream, the       *)
(* PublisherState announcement and the heartbeat of the interval worker.    *)
(***************************************************************************)

\* connections one Publisher instance makes (startPublishing after stop)
MaxConnections == 2

\* heartbeat ticks delivered by the interval workers
MaxPings == 4

VARIABLES
    eventStream,      \* this.eventStream is set
    eventWire,        \* payloads handed to this.eventStream.writer.write, per connection
    evStage,          \* position of createEventStream: idle, handshake, state, connected
    intervalWorkers,  \* interval workers created and not terminated
    connections,      \* event streams created so far
    pings,            \* heartbeat ticks delivered so far
    evCall            \* the last step of the event channel

eventVars == <<eventStream, eventWire, evStage, intervalWorkers, connections, pings, evCall>>

EventInit ==
    /\ eventStream = FALSE
    /\ eventWire = <<>>
    /\ evStage = "idle"
    /\ intervalWorkers = 0
    /\ connections = 0
    /\ pings = 0
    /\ evCall = [op |-> "new"]

\* sendOverEventStream: logs and returns when there is no event stream, else
\* hands the length-prefixed bytes to the writer
sendOverEventStream(w, stream, payload) == IF stream THEN Append(w, payload) ELSE w

\* createEventStream up to "await this.sendOverEventStream(initData)": the stream
\* of a new connection is stored and the "meeting_control" handshake is written
createEventStream ==
    /\ evStage = "idle"
    /\ connections < MaxConnections
    /\ connections' = connections + 1
    /\ eventStream' = TRUE
    /\ eventWire' = sendOverEventStream(<<>>, TRUE, "meeting_control")
    /\ evStage' = "handshake"
    /\ evCall' = [op |-> "createEventStream"]
    /\ UNCHANGED <<intervalWorkers, pings>>

\* the handshake write resolved: setupEventStreamReader, then sendPublisherState
\* hands the PublisherState JSON to the writer and awaits it
sendPublisherState ==
    /\ evStage = "handshake"
    /\ eventWire' = sendOverEventStream(eventWire, eventStream, "PublisherState")
    /\ evStage' = "state"
    /\ evCall' = [op |-> "sendPublisherState"]
    /\ UNCHANGED <<eventStream, intervalWorkers, connections, pings>>

\* the PublisherState write resolved: the interval worker of this connection is
\* created (interval 1000) and its onmessage handler installed
StartHeartbeat ==
    /\ evStage = "state"
    /\ intervalWorkers' = intervalWorkers + 1
    /\ evStage' = "connected"
    /\ evCall' = [op |-> "startHeartbeat"]
    /\ UNCHANGED <<eventStream, eventWire, connections, pings>>

\* workerInterval.onmessage of any interval worker that exists: a ping is sent
\* over whatever this.eventStream is at that moment
HeartbeatTick ==
    /\ intervalWorkers > 0
    /\ pings < MaxPings
    /\ pings' = pings + 1
    /\ eventWire' = sendOverEventStream(eventWire, eventStream, "ping")
    /\ evCall' = [op |-> "ping", sent |-> eventStream]
    /\ UNCHANGED <<eventStream, evStage, intervalWorkers, connections>>

\* stop(): the event stream's writer is closed and this.eventStream set to null;
\* the interval worker is left running
stopEventStream ==
    /\ evStage = "connected"
    /\ eventStream' = FALSE
    /\ evStage' = "idle"
    /\ evCall' = [op |-> "stop"]
    /\ UNCHANGED <<eventWire, intervalWorkers, connections, pings>>

\* positions of a payload in the event channel's writes of the current connection
EventPositions(payload) == {i \in DOMAIN eventWire : eventWire[i] = payload}

\* C24: per connection exactly one PublisherState message is written on the
\* event channel, at connect: after the event-channel handshake and before the
\* first heartbeat ping.
C24_OnePublisherStateBeforePing ==
    /\ Cardinality(EventPositions("PublisherState")) <= 1
    /\ evStage \in {"state", "connected"} => Cardinality(EventPositions("PublisherState")) = 1
    /\ \A i \in EventPositions("PublisherState") :
          /\ \E h \in EventPositions("meeting_control") : h < i
          /\ \A k \in EventPositions("ping") : i < k

(***************************************************************************)
(* Subscriber (src/unnamed/part_007): start() and stop() of one instance    *)
(* with its media worker, audio worklet node and video generator.           *)
(***************************************************************************)

\* start() calls made on one Subscriber
MaxStarts == 3

VARIABLES
    isOwnStream,        \* config.isOwnStream
    isStarted,          \* this.isStarted
    worker,             \* this.worker is a live (not terminated) Worker
    audioWorkletNode,   \* this.audioWorkletNode is set
    videoGenerator,     \* this.videoGenerator and this.videoWriter are set
    mediaStream,        \* this.mediaStream is set
    connectionStatus,   \* this.connectionStatus
    audioMixer,         \* this.audioMixer is set
    isAudioEnabled,     \* this.isAudioEnabled
    workersCreated,     \* Workers this instance created so far
    stopCompleted,      \* a stop() call ran to its end on this instance
    subCall             \* the last method that ran

subVars == <<isOwnStream, isStarted, worker, audioWorkletNode, videoGenerator, mediaStream,
             connectionStatus, audioMixer, isAudioEnabled, workersCreated, stopCompleted,
             subCall>>

SubConstructed ==
    /\ isStarted = FALSE
    /\ worker = FALSE
    /\ audioWorkletNode = FALSE
    /\ videoGenerator = FALSE
    /\ mediaStream = FALSE
    /\ connectionStatus = "disconnected"
    /\ audioMixer = FALSE
    /\ isAudioEnabled = TRUE
    /\ workersCreated = 0
    /\ stopCompleted = FALSE
    /\ subCall = [op |-> "new"]

SubInit == isOwnStream = FALSE /\ SubConstructed

SubInputs == isOwnStream \in BOOLEAN /\ SubConstructed

\* setAudioMixer(audioMixer)
setAudioMixer(mixer) ==
    /\ audioMixer' = mixer
    /\ subCall' = [op |-> "setAudioMixer"]
    /\ UNCHANGED <<isOwnStream, isStarted, worker, audioWorkletNode, videoGenerator,
                   mediaStream, connectionStatus, isAudioEnabled, workersCreated,
                   stopCompleted>>

\* "if (this.isStarted) throw new Error('Subscriber already started')"
StartAllowed == ~isStarted

\* start(): _initWorker, _initAudioSystem, _initVideoSystem in this order; audioOk
\* and videoOk say whether addSubscriber and the MediaStreamTrackGenerator succeed
SubscriberStart(audioOk, videoOk) ==
    LET audioTried == ~isOwnStream /\ audioMixer
        audioFailed == audioTried /\ ~audioOk
        videoFailed == ~audioFailed /\ ~videoOk
        ok == ~audioFailed /\ ~videoFailed
    IN  /\ StartAllowed
        /\ workersCreated < MaxStarts
        /\ worker' = TRUE
        /\ workersCreated' = workersCreated + 1
        /\ audioWorkletNode' = IF audioTried /\ audioOk THEN TRUE ELSE audioWorkletNode
        /\ videoGenerator' = IF ok THEN TRUE ELSE videoGenerator
        /\ mediaStream' = IF ok THEN TRUE ELSE mediaStream
        /\ isStarted' = ok
        /\ connectionStatus' = IF ok THEN "connected" ELSE "failed"
        /\ subCall' = [op |-> "start", ok |-> ok, afterStop |-> stopCompleted]
        /\ UNCHANGED <<isOwnStream, audioMixer, isAudioEnabled, stopCompleted>>

\* stop(): returns at once when not started; else the worker is terminated, the
\* video system cleaned up and the references cleared
SubscriberStop ==
    /\ isStarted
    /\ worker' = FALSE
    /\ videoGenerator' = FALSE
    /\ audioWorkletNode' = FALSE
    /\ mediaStream' = FALSE
    /\ isStarted' = FALSE
    /\ connectionStatus' = "disconnected"
    /\ stopCompleted' = TRUE
    /\ subCall' = [op |-> "stop"]
    /\ UNCHANGED <<isOwnStream, audioMixer, isAudioEnabled, workersCreated>>

\* toggleAudio(): throws unless started with a worker
SubscriberToggleAudio ==
    /\ isStarted
    /\ worker
    /\ isAudioEnabled' = ~isAudioEnabled
    /\ subCall' = [op |-> "toggleAudio"]
    /\ UNCHANGED <<isOwnStream, isStarted, worker, audioWorkletNode, videoGenerator,
                   mediaStream, connectionStatus, audioMixer, workersCreated, stopCompleted>>

\* C25: a Subscriber is not reusable after stop(): stop() tears down its worker,
\* its audio node and its video system, and once stop() has completed no later
\* start() call on the same instance establishes a worker again.
C25_NotReusableAfterStop ==
    [][ /\ subCall'.op = "stop"
            => ~worker' /\ ~audioWorkletNode' /\ ~videoGenerator' /\ ~mediaStream'
        /\ stopCompleted
            => ~worker' /\ ~isStarted' /\ workersCreated' = workersCreated
      ]_subVars

\* C35: when start() fails after the media worker was created, the worker is
\* not left running out of reach: at the end of the failed start() either the
\* worker has been terminated or the instance is in a state in which stop()
\* terminates it (stop() returns at once unless isStarted).
C35_FailedStartWorkerReclaimed ==
    [][ (subCall'.op = "start" /\ ~subCall'.ok) => (~worker' \/ isStarted')
      ]_subVars

(***************************************************************************)
(* Room (src/src/core/Room.js): the participants map and pinning.           *)
(***************************************************************************)

\* user ids of the members; LocalUser is the id of the client's own user
RoomUsers == {"me", "u1", "u2"}

LocalUser == "me"

NoParticipant == "none"

VARIABLES
    participants,       \* keys of this.participants
    localParticipant,   \* userId of this.localParticipant, or NoParticipant for null
    pinnedParticipant,  \* userId of this.pinnedParticipant, or NoParticipant for null
    pinnedStale,        \* this.pinnedParticipant is an object the map no longer holds
    isPinned,           \* userId -> isPinned of the Participant object in the map
    roomCall            \* the last Room method that ran, with its result

roomVars == <<participants, localParticipant, pinnedParticipant, pinnedStale, isPinned,
              roomCall>>

RoomInit ==
    /\ participants = {}
    /\ localParticipant = NoParticipant
    /\ pinnedParticipant = NoParticipant
    /\ pinnedStale = FALSE
    /\ isPinned = [u \in RoomUsers |-> FALSE]
    /\ roomCall = [op |-> "new"]

\* the state pinParticipant(userId) leaves: [ok, pinned, stale, flags]; the
\* flag of the previously pinned object is cleared, which shows in the map
\* only when that object is still the one stored there
PinResult(userId, members, pinned, stale, flags) ==
    IF userId \notin members
    THEN [ok |-> FALSE, pinned |-> pinned, stale |-> stale, flags |-> flags]
    ELSE [ok |-> TRUE, pinned |-> userId, stale |-> FALSE,
          flags |-> [u \in RoomUsers |->
                        IF u = userId THEN TRUE
                        ELSE IF u = pinned /\ ~stale THEN FALSE
                        ELSE flags[u]]]

\* the state unpinParticipant() leaves: the pinned participant is unpinned, then
\* the local participant, when there is one, is pinned
UnpinResult(members, local, pinned, stale, flags) ==
    IF pinned = NoParticipant
    THEN [ok |-> FALSE, pinned |-> pinned, stale |-> stale, flags |-> flags]
    ELSE LET cleared == IF stale THEN flags ELSE [flags EXCEPT ![pinned] = FALSE]
         IN  IF local # NoParticipant
             THEN [PinResult(local, members, NoParticipant, FALSE, cleared) EXCEPT !.ok = TRUE]
             ELSE [ok |-> TRUE, pinned |-> NoParticipant, stale |-> FALSE, flags |-> cleared]

MayAdd_NewOnly(userId, members) == userId \notin members

\* addParticipant has no test for a user id that is already in the map
MayAdd(userId, members) == TRUE

\* addParticipant(memberData, userId): a new Participant is stored under the
\* user id, replacing the object that was stored there
addParticipant(userId) ==
    /\ MayAdd(userId, participants)
    /\ participants' = participants \cup {userId}
    /\ isPinned' = [isPinned EXCEPT ![userId] = FALSE]
    /\ localParticipant' = IF userId = LocalUser THEN userId ELSE localParticipant
    /\ pinnedStale' = IF userId \in participants /\ pinnedParticipant = userId
                      THEN TRUE ELSE pinnedStale
    /\ roomCall' = [op |-> "addParticipant", userId |-> userId]
    /\ UNCHANGED pinnedParticipant

\* removeParticipant(userId)
removeParticipant(userId) ==
    /\ userId \in participants
    /\ participants' = participants \ {userId}
    /\ localParticipant' = IF localParticipant = userId THEN NoParticipant ELSE localParticipant
    /\ pinnedParticipant' = IF pinnedParticipant = userId THEN NoParticipant
                            ELSE pinnedParticipant
    /\ pinnedStale' = IF pinnedParticipant = userId THEN FALSE ELSE pinnedStale
    /\ roomCall' = [op |-> "removeParticipant", userId |-> userId]
    /\ UNCHANGED isPinned

\* pinParticipant(userId)
pinParticipant(userId) ==
    LET r == PinResult(userId, participants, pinnedParticipant, pinnedStale, isPinned)
    IN  /\ pinnedParticipant' = r.pinned
        /\ pinnedStale' = r.stale
        /\ isPinned' = r.flags
        /\ roomCall' = [op |-> "pinParticipant", userId |-> userId, result |-> r.ok]
        /\ UNCHANGED <<participants, localParticipant>>

\* unpinParticipant()
unpinParticipant ==
    LET r == UnpinResult(participants, localParticipant, pinnedParticipant, pinnedStale,
                         isPinned)
    IN  /\ pinnedParticipant' = r.pinned
        /\ pinnedStale' = r.stale
        /\ isPinned' = r.flags
        /\ roomCall' = [op |-> "unpinParticipant", was |-> pinnedParticipant,
                        result |-> r.ok]
        /\ UNCHANGED <<participants, localParticipant>>

\* togglePin() of the Participant stored for a member: the flag is inverted and
\* the room's "pinToggled" listener pins the participant, or unpins when the
\* participant is the room's pinned one
togglePin(userId) ==
    /\ userId \in participants
    /\ LET toggled == [isPinned EXCEPT ![userId] = ~isPinned[userId]]
           r == IF toggled[userId]
                THEN PinResult(userId, participants, pinnedParticipant, pinnedStale, toggled)
                ELSE IF pinnedParticipant = userId /\ ~pinnedStale
                THEN UnpinResult(participants, localParticipant, pinnedParticipant,
                                 pinnedStale, toggled)
                ELSE [ok |-> TRUE, pinned |-> pinnedParticipant, stale |-> pinnedStale,
                      flags |-> toggled]
       IN  /\ pinnedParticipant' = r.pinned
           /\ pinnedStale' = r.stale
           /\ isPinned' = r.flags
    /\ roomCall' = [op |-> "togglePin", userId |-> userId]
    /\ UNCHANGED <<participants, localParticipant>>

\* C39: in every Room state at most one member has isPinned true, and
\* room.pinnedParticipant is non-null exactly when such a member exists; it
\* then is that member's Participant object, which is stored in
\* room.participants.
C39_SinglePinConsistent ==
    /\ Cardinality({u \in participants : isPinned[u]}) <= 1
    /\ (pinnedParticipant # NoParticipant) <=> (\E u \in participants : isPinned[u])
    /\ pinnedParticipant # NoParticipant
          => /\ ~pinnedStale
             /\ pinnedParticipant \in participants
             /\ isPinned[pinnedParticipant]

\* C26: Room.unpinParticipant(), called while some participant is pinned,
\* returns true and leaves that participant unpinned: afterwards its isPinned
\* is false and room.pinnedParticipant does not refer to it.
C26_UnpinLeavesUnpinned ==
    [][ (roomCall'.op = "unpinParticipant" /\ pinnedParticipant # NoParticipant)
            => /\ roomCall'.result
               /\ ~isPinned'[pinnedParticipant]
               /\ pinnedParticipant' # pinnedParticipant
      ]_roomVars

(***************************************************************************)
(* ErmisClient (src/src/core/Participant.js): authenticate, logout and the  *)
(* reconnection loop started by the "failed" connection status.             *)
(***************************************************************************)

\* config.reconnectAttempts
reconnectAttempts == 2

\* authenticate() calls the application makes
MaxAuthCalls == 3

ClientUserIds == {"a", "b"}

NoUser == "none"

VARIABLES
    clientUser,           \* this.state.user.id, or NoUser for null
    isAuthenticated,      \* this.state.isAuthenticated
    clientStatus,         \* this.state.connectionStatus
    reconnectLoops,       \* the _attemptReconnect calls started so far: [attempts, state]
    reconnectionFailed,   \* "reconnectionFailed" events emitted
    authCalls,            \* authenticate() calls made by the application
    clientCall            \* the last step of the client

clientVars == <<clientUser, isAuthenticated, clientStatus, reconnectLoops,
                reconnectionFailed, authCalls, clientCall>>

ClientInit ==
    /\ clientUser = NoUser
    /\ isAuthenticated = FALSE
    /\ clientStatus = "disconnected"
    /\ reconnectLoops = <<>>
    /\ reconnectionFailed = 0
    /\ authCalls = 0
    /\ clientCall = [op |-> "new"]

\* the "connectionStatusChanged" handler of _setupEventHandlers: a change to
\* "failed" starts _attemptReconnect when reconnectAttempts > 0
StatusChanged(loops, before, after) ==
    IF after # before /\ after = "failed" /\ reconnectAttempts > 0
    THEN Append(loops, [attempts |-> 0, state |-> "running"])
    ELSE loops

\* authenticate(userId): [user, auth, status, loops, threw]; ok: the token
\* request and the email check succeed
AuthResult(userId, ok, user, auth, status, loops) ==
    IF auth /\ user = userId
    THEN [user |-> user, auth |-> auth, status |-> status, loops |-> loops, threw |-> FALSE]
    ELSE IF ok
         THEN [user |-> userId, auth |-> TRUE, status |-> "connected",
               loops |-> loops, threw |-> FALSE]
         ELSE [user |-> user, auth |-> auth, status |-> "failed",
               loops |-> StatusChanged(loops, "connecting", "failed"), threw |-> TRUE]

\* the application calls authenticate(userId)
authenticate(userId, ok) ==
    LET r == AuthResult(userId, ok, clientUser, isAuthenticated, clientStatus, reconnectLoops)
    IN  /\ authCalls < MaxAuthCalls
        /\ authCalls' = authCalls + 1
        /\ clientUser' = r.user
        /\ isAuthenticated' = r.auth
        /\ clientStatus' = r.status
        /\ reconnectLoops' = r.loops
        /\ clientCall' = [op |-> "authenticate", threw |-> r.threw]
        /\ UNCHANGED reconnectionFailed

\* logout(): returns at once when not authenticated
logout ==
    /\ isAuthenticated
    /\ clientUser' = NoUser
    /\ isAuthenticated' = FALSE
    /\ clientStatus' = "disconnected"
    /\ clientCall' = [op |-> "logout"]
    /\ UNCHANGED <<reconnectLoops, reconnectionFailed, authCalls>>

\* one turn of the while loop of _attemptReconnect number i, after its delay:
\* with a user, authenticate(user.id) and return when it did not throw
AttemptReconnect(i, ok) ==
    LET me == reconnectLoops[i]
        counted == [reconnectLoops EXCEPT ![i].attempts = @ + 1]
        r == AuthResult(clientUser, ok, clientUser, isAuthenticated, clientStatus, counted)
    IN  /\ me.state = "running"
        /\ me.attempts < reconnectAttempts
        /\ IF clientUser = NoUser
           THEN /\ reconnectLoops' = counted
                /\ UNCHANGED <<clientUser, isAuthenticated, clientStatus>>
           ELSE /\ clientUser' = r.user
                /\ isAuthenticated' = r.auth
                /\ clientStatus' = r.status
                /\ reconnectLoops' = IF r.threw THEN r.loops
                                     ELSE [r.loops EXCEPT ![i].state = "returned"]
        /\ clientCall' = [op |-> "attemptReconnect", loop |-> i]
        /\ UNCHANGED <<reconnectionFailed, authCalls>>

\* the loop of _attemptReconnect number i is over: emit("reconnectionFailed")
ReconnectGiveUp(i) ==
    /\ reconnectLoops[i].state = "running"
    /\ reconnectLoops[i].attempts >= reconnectAttempts
    /\ reconnectLoops' = [reconnectLoops EXCEPT ![i].state = "gaveUp"]
    /\ reconnectionFailed' = reconnectionFailed + 1
    /\ clientCall' = [op |-> "reconnectionFailed", loop |-> i]
    /\ UNCHANGED <<clientUser, isAuthenticated, clientStatus, authCalls>>

\* C27: after connectionStatus became "failed" with reconnectAttempts = N > 0,
\* the client makes at most N reconnection attempts, and the episode always
\* ends with either connectionStatus "connected" or a "reconnectionFailed" event.
C27_ReconnectEndsConnectedOrFailed ==
    [][ \A i \in DOMAIN reconnectLoops :
          /\ reconnectLoops'[i].attempts <= reconnectAttempts
          /\ (reconnectLoops[i].state = "running" /\ reconnectLoops'[i].state # "running")
                => \/ clientStatus' = "connected"
                   \/ (reconnectLoops'[i].state = "gaveUp"
                       /\ reconnectionFailed' = reconnectionFailed + 1)
      ]_clientVars

(***************************************************************************)
(* Participant (src/src/core/Participant.js) as an EventEmitter              *)
(* (src/examples/dist/index.js): listeners, emit and cleanup.               *)
(***************************************************************************)

ParticipantEvents == {"cleanup", "statusChanged", "pinToggled"}

\* the listener functions an application registers
Listeners == {"f", "g"}

VARIABLES
    events,            \* this._events: event -> the listeners registered for it
    participantStatus, \* this.connectionStatus of the participant
    notified,          \* [event, listener] calls made by the last method that ran
    partCall           \* the last method that ran

participantVars == <<events, participantStatus, notified, partCall>>

ParticipantInit ==
    /\ events = [e \in ParticipantEvents |-> {}]
    /\ participantStatus = "disconnected"
    /\ notified = {}
    /\ partCall = [op |-> "new"]

\* emit(event): every listener registered for the event is called
emit(registered, event) == {[event |-> event, listener |-> l] : l \in registered[event]}

\* removeAllListeners() without an event: this._events.clear()
removeAllListeners(registered) == [e \in ParticipantEvents |-> {}]

\* on(event, listener)
on(event, listener) ==
    /\ listener \notin events[event]
    /\ events' = [events EXCEPT ![event] = @ \cup {listener}]
    /\ notified' = {}
    /\ partCall' = [op |-> "on", event |-> event]
    /\ UNCHANGED participantStatus

\* off(event, listener)
off(event, listener) ==
    /\ listener \in events[event]
    /\ events' = [events EXCEPT ![event] = @ \ {listener}]
    /\ notified' = {}
    /\ partCall' = [op |-> "off", event |-> event]
    /\ UNCHANGED participantStatus

\* setConnectionStatus(status)
setConnectionStatus(status) ==
    /\ participantStatus' = status
    /\ notified' = emit(events, "statusChanged")
    /\ partCall' = [op |-> "setConnectionStatus"]
    /\ UNCHANGED events

\* cleanup(): setConnectionStatus("disconnected"), removeAllListeners(),
\* emit("cleanup")
cleanup ==
    /\ participantStatus' = "disconnected"
    /\ events' = removeAllListeners(events)
    /\ notified' = emit(events, "statusChanged") \cup emit(events', "cleanup")
    /\ partCall' = [op |-> "cleanup", registered |-> events["cleanup"]]

\* C28: when a participant is cleaned up, every listener registered on that
\* participant for its "cleanup" event is notified of the cleanup.
C28_CleanupListenersNotified ==
    [][ partCall'.op = "cleanup"
            => \A l \in events["cleanup"] :
                  [event |-> "cleanup", listener |-> l] \in notified'
      ]_participantVars

(***************************************************************************)
(* Receiver pacing timers: startSendingVideo and startSendingAudio of the  *)
(* media worker.  A frame buffer is its number of queued frames; a rate is *)
(* the percentage of the nominal frame period 1000 / frameRate; an         *)
(* interval id is the handle setInterval returned with the delay it was    *)
(* created with (id 0: no timer).                                          *)
(***************************************************************************)

\* longest queue a run starts with
MaxQueued == 17

VideoSpeeds == {0, 1, 2, 3}
AudioSpeeds == {-1, 0, 1, 2}

VARIABLES
    videoFrameBuffer,
    audioFrameBuffer,
    curVideoInterval,
    curAudioInterval,
    videoIntervalID,
    audioIntervalID,
    paceCall

pacerVars == <<videoFrameBuffer, audioFrameBuffer, curVideoInterval, curAudioInterval,
               videoIntervalID, audioIntervalID, paceCall>>

NoTimer == [id |-> 0, delay |-> 0]

\* "(1000 / videoFrameRate) * 0.75", "* 0.85", "", "* 1.05"
VideoRate(speed) == CASE speed = 3 -> 75 [] speed = 2 -> 85 [] speed = 1 -> 100 [] OTHER -> 105

\* "(1000 / audioFrameRate) * 0.85", "* 0.93", "", "* 1.05"
AudioRate(speed) == CASE speed = 2 -> 85 [] speed = 1 -> 93 [] speed = 0 -> 100 [] OTHER -> 105

\* the worker as loaded: empty buffers, no interval object, no timer
PacerInit ==
    /\ videoFrameBuffer = 0
    /\ audioFrameBuffer = 0
    /\ curVideoInterval = [speed |-> 0, rate |-> VideoRate(0)]
    /\ curAudioInterval = [speed |-> 0, rate |-> AudioRate(0)]
    /\ videoIntervalID = NoTimer
    /\ audioIntervalID = NoTimer
    /\ paceCall = [op |-> "none", len |-> 0, restarted |-> FALSE, decoded |-> FALSE]

\* "clearInterval(id); id = setInterval(..., interval.rate)"
Restarted(timer, interval) == [id |-> timer.id + 1, delay |-> interval.rate]

\* both timers started on queues of any length with any current speed
PacerInputs ==
    /\ videoFrameBuffer \in 0..MaxQueued
    /\ audioFrameBuffer \in 0..MaxQueued
    /\ curVideoInterval \in {[speed |-> sp, rate |-> VideoRate(sp)] : sp \in VideoSpeeds}
    /\ curAudioInterval \in {[speed |-> sp, rate |-> AudioRate(sp)] : sp \in AudioSpeeds}
    /\ videoIntervalID = Restarted(NoTimer, curVideoInterval)
    /\ audioIntervalID = Restarted(NoTimer, curAudioInterval)
    /\ paceCall = [op |-> "none", len |-> 0, restarted |-> FALSE, decoded |-> FALSE]

\* "curVideoInterval.speed !== 3"
SpeedDiffers_Always(speed, tier) == TRUE

SpeedDiffers(speed, tier) == speed # tier

\* the if / else-if chain of the video callback: the speed it selects
VideoSpeedFor(len, speed) ==
    IF len > 15 /\ SpeedDiffers(speed, 3) THEN [fired |-> TRUE, speed |-> 3]
    ELSE IF len > 10 /\ len <= 15 /\ SpeedDiffers(speed, 2) THEN [fired |-> TRUE, speed |-> 2]
    ELSE IF len <= 10 /\ len > 5 /\ SpeedDiffers(speed, 1) THEN [fired |-> TRUE, speed |-> 1]
    ELSE IF len <= 5 /\ SpeedDiffers(speed, 0) THEN [fired |-> TRUE, speed |-> 0]
    ELSE [fired |-> FALSE, speed |-> speed]

\* the four ifs of the audio callback, each ending in a return
AudioSpeedFor(len, speed) ==
    IF len > 15 /\ SpeedDiffers(speed, 2) THEN [fired |-> TRUE, speed |-> 2]
    ELSE IF len > 10 /\ len <= 15 /\ SpeedDiffers(speed, 1) THEN [fired |-> TRUE, speed |-> 1]
    ELSE IF len <= 10 /\ len > 5 /\ SpeedDiffers(speed, 0) THEN [fired |-> TRUE, speed |-> 0]
    ELSE IF len <= 5 /\ SpeedDiffers(speed, -1) THEN [fired |-> TRUE, speed |-> -1]
    ELSE [fired |-> FALSE, speed |-> speed]

\* one callback of the video timer; the frame is shifted and decoded on
\* every tick, restarted or not
VideoTick ==
    /\ videoIntervalID.id > 0
    /\ LET len == videoFrameBuffer
           r == VideoSpeedFor(len, curVideoInterval.speed)
           interval == [speed |-> r.speed, rate |-> VideoRate(r.speed)]
       IN  /\ curVideoInterval' = IF r.fired THEN interval ELSE curVideoInterval
           /\ videoIntervalID' = IF r.fired THEN Restarted(videoIntervalID, interval)
                                 ELSE videoIntervalID
           /\ videoFrameBuffer' = IF len > 0 THEN len - 1 ELSE 0
           /\ paceCall' = [op |-> "videoTick", len |-> len, restarted |-> r.fired,
                           decoded |-> len > 0]
    /\ UNCHANGED <<audioFrameBuffer, curAudioInterval, audioIntervalID>>

\* one callback of the audio timer; a restart returns before the shift.
\* OpusAudioDecoder.decode() reports through its error callback and never
\* throws, so the catch branch that clears the timer is not entered.
AudioTick ==
    /\ audioIntervalID.id > 0
    /\ LET len == audioFrameBuffer
           r == AudioSpeedFor(len, curAudioInterval.speed)
           interval == [speed |-> r.speed, rate |-> AudioRate(r.speed)]
       IN  /\ curAudioInterval' = IF r.fired THEN interval ELSE curAudioInterval
           /\ audioIntervalID' = IF r.fired THEN Restarted(audioIntervalID, interval)
                                 ELSE audioIntervalID
           /\ audioFrameBuffer' = IF ~r.fired /\ len > 0 THEN len - 1 ELSE len
           /\ paceCall' = [op |-> "audioTick", len |-> len, restarted |-> r.fired,
                           decoded |-> ~r.fired /\ len > 0]
    /\ UNCHANGED <<videoFrameBuffer, curVideoInterval, videoIntervalID>>

\* the tier the queue length implies: more than 15, 11-15, 6-10, at most 5
QueueTier(len) == IF len > 15 THEN 3 ELSE IF len > 10 THEN 2 ELSE IF len > 5 THEN 1 ELSE 0

\* the audio speeds number the same four tiers from -1
AudioTierSpeed(len) == QueueTier(len) - 1

\* C31: a pacing timer is cleared and restarted exactly on a tick on which
\* the tier implied by the queue length differs from the current tier; on
\* every other tick the timer handle, its delay and the current interval
\* stay as they were.
C31_RestartOnlyOnTierChange ==
    [][ /\ paceCall'.op = "videoTick" =>
            /\ (videoIntervalID'.id # videoIntervalID.id)
                   <=> (QueueTier(paceCall'.len) # curVideoInterval.speed)
            /\ (QueueTier(paceCall'.len) = curVideoInterval.speed)
                   => /\ videoIntervalID' = videoIntervalID
                      /\ curVideoInterval' = curVideoInterval
            /\ curVideoInterval'.speed = QueueTier(paceCall'.len)
        /\ paceCall'.op = "audioTick" =>
            /\ (audioIntervalID'.id # audioIntervalID.id)
                   <=> (AudioTierSpeed(paceCall'.len) # curAudioInterval.speed)
            /\ (AudioTierSpeed(paceCall'.len) = curAudioInterval.speed)
                   => /\ audioIntervalID' = audioIntervalID
                      /\ curAudioInterval' = curAudioInterval
            /\ curAudioInterval'.speed = AudioTierSpeed(paceCall'.len)
      ]_pacerVars

\* a video tick on 15 queued frames moved the timer to the 11-15 tier after
\* the audio timer had been restarted as well
C31_Witness ==
    /\ paceCall.op = "videoTick"
    /\ paceCall.restarted
    /\ paceCall.len = 15
    /\ curVideoInterval.speed = 2
    /\ videoIntervalID.delay = 85
    /\ audioIntervalID.id > 1

(***************************************************************************)
(* Publisher lifecycle: startPublishing() and stop() as the sequences of   *)
(* awaits they are, with the callbacks that run between those awaits (the  *)
(* capture loop, the encoder outputs, the interval worker).  Objects are   *)
(* numbered by the startPublishing call that created them.                 *)
(***************************************************************************)

\* startPublishing() calls made on one Publisher
MaxStartCalls == 2

StartCallIds == 1..MaxStartCalls

\* insertion order of this.videoEncoders (the order of this.subStreams)
EncoderOrder == <<"high", "low", "screen">>

\* insertion order of this.publishStreams
WriterOrder == <<"cam_720p", "cam_360p", "mic_48k">>

VARIABLES
    startCalls,         \* position of each startPublishing() call
    webTransport,       \* call whose WebTransport this.webTransport is, 0: null
    opened,             \* WebTransports created since stop() was last called
    encoderState,       \* encoder.state of the encoders each call created
    mapGen,             \* call whose encoders are in this.videoEncoders, 0: empty
    captureLoop,        \* position of the capture loop each call started
    liveTracks,         \* calls whose media stream tracks are not stopped
    stream,             \* call whose media stream this.stream is, 0: null
    stopPc,             \* position of the running stop(), "idle": none
    streamWriter,       \* the writer in this.publishStreams per channel
    eventStreamWriter,  \* this.eventStream.writer, "none": this.eventStream is null
    heartbeat,          \* an interval worker exists
    lifeCall            \* the last step and whether it used a closed object

lifeVars == <<startCalls, webTransport, opened, encoderState, mapGen, captureLoop,
              liveTracks, stream, stopPc, streamWriter, eventStreamWriter, heartbeat,
              lifeCall>>

\* the Publisher fields the lifecycle steps do not follow
pubRest == <<isChannelOpen, micEnabled, cameraEnabled, publishStreams, videoEncoders,
             audioProcessor, sequenceNumber, configWrite, wire, nextChunk, dropped,
             pubCall, captureVars, writerClosed>>

LifeInit ==
    /\ startCalls = [i \in StartCallIds |-> "none"]
    /\ webTransport = 0
    /\ opened = 0
    /\ encoderState = [i \in StartCallIds |-> [q \in EncoderNames |-> "none"]]
    /\ mapGen = 0
    /\ captureLoop = [i \in StartCallIds |-> "none"]
    /\ liveTracks = {}
    /\ stream = 0
    /\ stopPc = "idle"
    /\ streamWriter = [c \in ConnectedChannels |-> "none"]
    /\ eventStreamWriter = "none"
    /\ heartbeat = FALSE
    /\ lifeCall = [op |-> "new", closed |-> FALSE]

\* "if (this.isPublishing) { ...; return; }" of startPublishing
AlreadyPublishing_InProgress(publishing, calls) ==
    publishing \/ \E i \in DOMAIN calls : calls[i] \in {"init", "ready", "media"}

AlreadyPublishing(publishing, calls) == publishing

\* startPublishing() is called: it returns when already publishing, else it
\* awaits init()
startPublishingCall(i) ==
    /\ startCalls[i] = "none"
    /\ IF i = 1 THEN TRUE ELSE startCalls[i - 1] # "none"
    /\ startCalls' = [startCalls EXCEPT ![i] =
                        IF AlreadyPublishing(isPublishing, startCalls)
                        THEN "returned" ELSE "init"]
    /\ lifeCall' = [op |-> "startPublishing", closed |-> FALSE]
    /\ UNCHANGED <<isPublishing, webTransport, opened, encoderState, mapGen, captureLoop,
                   liveTracks, stream, stopPc, streamWriter, eventStreamWriter, heartbeat>>

\* init() resolved; setupConnection: "this.webTransport = new WebTransport(...)",
\* then it awaits webTransport.ready
newWebTransport(i) ==
    /\ startCalls[i] = "init"
    /\ webTransport' = i
    /\ opened' = opened + 1
    /\ startCalls' = [startCalls EXCEPT ![i] = "ready"]
    /\ lifeCall' = [op |-> "newWebTransport", closed |-> FALSE]
    /\ UNCHANGED <<isPublishing, encoderState, mapGen, captureLoop, liveTracks, stream,
                   stopPc, streamWriter, eventStreamWriter, heartbeat>>

\* the transport is ready: createEventStream (event stream, interval worker) and
\* a createBidirectionalStream per connected channel, all on this.webTransport;
\* with this.webTransport null the first of them throws
setupStreams(i) ==
    /\ startCalls[i] = "ready"
    /\ IF webTransport = 0
       THEN /\ startCalls' = [startCalls EXCEPT ![i] = "failed"]
            /\ UNCHANGED <<streamWriter, eventStreamWriter, heartbeat>>
       ELSE /\ startCalls' = [startCalls EXCEPT ![i] = "media"]
            /\ eventStreamWriter' = "open"
            /\ heartbeat' = TRUE
            /\ streamWriter' = [c \in ConnectedChannels |-> "open"]
    /\ lifeCall' = [op |-> "setupConnection", closed |-> FALSE]
    /\ UNCHANGED <<isPublishing, webTransport, opened, encoderState, mapGen, captureLoop,
                   liveTracks, stream, stopPc>>

\* getMediaStream resolved or threw; on success "this.isPublishing = true" and
\* startStreaming: initVideoEncoders, configure, the capture loop is started
startStreamingCall(i, ok) ==
    /\ startCalls[i] = "media"
    /\ IF ok
       THEN /\ startCalls' = [startCalls EXCEPT ![i] = "done"]
            /\ stream' = i
            /\ liveTracks' = liveTracks \cup {i}
            /\ isPublishing' = TRUE
            /\ encoderState' = [encoderState EXCEPT ![i] = [q \in EncoderNames |-> "configured"]]
            /\ mapGen' = i
            /\ captureLoop' = [captureLoop EXCEPT ![i] = "check"]
       ELSE /\ startCalls' = [startCalls EXCEPT ![i] = "failed"]
            /\ UNCHANGED <<stream, liveTracks, isPublishing, encoderState, mapGen, captureLoop>>
    /\ lifeCall' = [op |-> "startStreaming", closed |-> FALSE]
    /\ UNCHANGED <<webTransport, opened, stopPc, streamWriter, eventStreamWriter, heartbeat>>

\* "while (this.isPublishing)" of the capture loop, then "await reader.read()"
captureLoopCheck(g) ==
    /\ captureLoop[g] = "check"
    /\ captureLoop' = [captureLoop EXCEPT ![g] = IF isPublishing THEN "reading" ELSE "ended"]
    /\ lifeCall' = [op |-> "loopCheck", closed |-> FALSE]
    /\ UNCHANGED <<isPublishing, startCalls, webTransport, opened, encoderState, mapGen,
                   liveTracks, stream, stopPc, streamWriter, eventStreamWriter, heartbeat>>

\* "if (!this.isPublishing) break;" after the read, which the loop does not have
ReadStillWanted_Rechecked(publishing) == publishing

ReadStillWanted(publishing) == TRUE

\* reader.read() resolved with a frame: encode() on the camera encoders the loop
\* captured; encode() on a closed encoder throws and ends the loop
captureLoopRead(g) ==
    /\ captureLoop[g] = "reading"
    /\ g \in liveTracks
    /\ IF ReadStillWanted(isPublishing) /\ cameraEnabled
       THEN LET onClosed == \E q \in CameraEncoders : encoderState[g][q] = "closed"
            IN  /\ captureLoop' = [captureLoop EXCEPT ![g] = IF onClosed THEN "ended" ELSE "check"]
                /\ lifeCall' = [op |-> "encode", closed |-> onClosed]
       ELSE /\ captureLoop' = [captureLoop EXCEPT ![g] =
                                  IF ReadStillWanted(isPublishing) THEN "check" ELSE "ended"]
            /\ lifeCall' = [op |-> "frameSkipped", closed |-> FALSE]
    /\ UNCHANGED <<isPublishing, startCalls, webTransport, opened, encoderState, mapGen,
                   liveTracks, stream, stopPc, streamWriter, eventStreamWriter, heartbeat>>

\* reader.read() resolved with done: the track was stopped
captureLoopDone(g) ==
    /\ captureLoop[g] = "reading"
    /\ g \notin liveTracks
    /\ captureLoop' = [captureLoop EXCEPT ![g] = "ended"]
    /\ lifeCall' = [op |-> "readDone", closed |-> FALSE]
    /\ UNCHANGED <<isPublishing, startCalls, webTransport, opened, encoderState, mapGen,
                   liveTracks, stream, stopPc, streamWriter, eventStreamWriter, heartbeat>>

\* output callback of a configured camera encoder: handleVideoChunk returns when
\* the encoder or the stream is not in its map, else it hands the StreamConfig
\* or the packet to the channel's writer
encoderOutput(g, q) ==
    /\ encoderState[g][q] = "configured"
    /\ LET c == EncoderChannel[q]
           writes == mapGen # 0 /\ streamWriter[c] # "none"
       IN  lifeCall' = IF writes
                       THEN [op |-> "streamWrite", closed |-> streamWriter[c] = "closed"]
                       ELSE [op |-> "outputDropped", closed |-> FALSE]
    /\ UNCHANGED <<isPublishing, startCalls, webTransport, opened, encoderState, mapGen,
                   captureLoop, liveTracks, stream, stopPc, streamWriter, eventStreamWriter,
                   heartbeat>>

\* workerInterval.onmessage: sendOverEventStream(ping) returns when
\* this.eventStream is null, else it writes on this.eventStream.writer
onIntervalMessage ==
    /\ heartbeat
    /\ lifeCall' = IF eventStreamWriter = "none"
                   THEN [op |-> "pingSkipped", closed |-> FALSE]
                   ELSE [op |-> "eventWrite", closed |-> eventStreamWriter = "closed"]
    /\ UNCHANGED <<isPublishing, startCalls, webTransport, opened, encoderState, mapGen,
                   captureLoop, liveTracks, stream, stopPc, streamWriter, eventStreamWriter,
                   heartbeat>>

\* the first entry of an ordered map whose object is in the given state, 0: none
FirstIn(order, states, st) ==
    LET hits == {k \in DOMAIN order : states[order[k]] = st}
    IN  IF hits = {} THEN 0 ELSE CHOOSE k \in hits : \A j \in hits : k <= j

\* stop() is called while publishing: "this.isPublishing = false", then it
\* awaits flush() of the first encoder in the map
stopCall ==
    /\ isPublishing
    /\ stopPc = "idle"
    /\ isPublishing' = FALSE
    /\ opened' = 0
    /\ stopPc' = "encoders"
    /\ lifeCall' = [op |-> "stop", closed |-> FALSE]
    /\ UNCHANGED <<startCalls, webTransport, encoderState, mapGen, captureLoop, liveTracks,
                   stream, streamWriter, eventStreamWriter, heartbeat>>

\* flush() resolved: the encoder is closed and the flush of the next one is
\* awaited; after the last one "this.videoEncoders.clear()" and
\* "await this.audioProcessor.stop()"
stopCloseEncoder ==
    /\ stopPc = "encoders"
    /\ IF mapGen = 0
       THEN /\ stopPc' = "audio"
            /\ UNCHANGED <<encoderState, mapGen>>
       ELSE LET k == FirstIn(EncoderOrder, encoderState[mapGen], "configured")
                closed == IF k = 0 THEN encoderState
                          ELSE [encoderState EXCEPT ![mapGen][EncoderOrder[k]] = "closed"]
                last == FirstIn(EncoderOrder, closed[mapGen], "configured") = 0
            IN  /\ encoderState' = closed
                /\ mapGen' = IF last THEN 0 ELSE mapGen
                /\ stopPc' = IF last THEN "audio" ELSE "encoders"
    /\ lifeCall' = [op |-> "closeEncoder", closed |-> FALSE]
    /\ UNCHANGED <<isPublishing, startCalls, webTransport, opened, captureLoop, liveTracks,
                   stream, streamWriter, eventStreamWriter, heartbeat>>

\* writer.close() is called on the next open writer of the map and awaited;
\* after the last one "this.publishStreams.clear()" and the event stream
\* writer's close() is called and awaited
CloseNextWriter(writers, ev) ==
    LET k == FirstIn(WriterOrder, writers, "open")
    IN  IF k # 0
        THEN [pc |-> "streams", writers |-> [writers EXCEPT ![WriterOrder[k]] = "closed"],
              ev |-> ev]
        ELSE [pc |-> "event", writers |-> [c \in ConnectedChannels |-> "none"],
              ev |-> IF ev = "none" THEN "none" ELSE "closed"]

\* audioProcessor.stop() resolved
stopAudioProcessor ==
    /\ stopPc = "audio"
    /\ LET r == CloseNextWriter(streamWriter, eventStreamWriter)
       IN  /\ stopPc' = r.pc
           /\ streamWriter' = r.writers
           /\ eventStreamWriter' = r.ev
    /\ lifeCall' = [op |-> "stopAudio", closed |-> FALSE]
    /\ UNCHANGED <<isPublishing, startCalls, webTransport, opened, encoderState, mapGen,
                   captureLoop, liveTracks, stream, heartbeat>>

\* a channel writer's close() resolved
stopCloseWriter ==
    /\ stopPc = "streams"
    /\ LET r == CloseNextWriter(streamWriter, eventStreamWriter)
       IN  /\ stopPc' = r.pc
           /\ streamWriter' = r.writers
           /\ eventStreamWriter' = r.ev
    /\ lifeCall' = [op |-> "closeWriter", closed |-> FALSE]
    /\ UNCHANGED <<isPublishing, startCalls, webTransport, opened, encoderState, mapGen,
                   captureLoop, liveTracks, stream, heartbeat>>

\* the event writer's close() resolved: "this.eventStream = null", the transport
\* is closed and forgotten, the tracks of this.stream are stopped
stopFinish ==
    /\ stopPc = "event"
    /\ eventStreamWriter' = "none"
    /\ webTransport' = 0
    /\ liveTracks' = liveTracks \ {stream}
    /\ stream' = 0
    /\ stopPc' = "idle"
    /\ lifeCall' = [op |-> "stopped", closed |-> FALSE]
    /\ UNCHANGED <<isPublishing, startCalls, opened, encoderState, mapGen, captureLoop,
                   streamWriter, heartbeat>>

\* C33: between two stop() calls at most one WebTransport is created on a
\* Publisher, however many startPublishing() calls are made and whether or not
\* an earlier one is still in progress.
C33_OneConnectionBetweenStops == opened <= 1

\* C34: no encode() is called on an encoder that stop() has closed and no write
\* is issued on a channel or event writer that stop() has closed, also for a
\* frame read, an encoder output or a heartbeat tick that was pending when
\* stop() was called.
C34_NoUseAfterClose ==
    lifeCall.op \in {"encode", "streamWrite", "eventWrite"} => ~lifeCall.closed

(***************************************************************************)
(* EventEmitter: the listener array of one event, in registration order.   *)
(* A listener is its identity, whether it is a once() wrapper, and the     *)
(* listener it removes with off() when it runs (0: none).                  *)
(***************************************************************************)

\* listeners registered for the event
MaxListeners == 3

ListenerIds == 1..MaxListeners

VARIABLES
    listenerArray,   \* this._events.get(event)
    emitCall         \* the last method that ran; for emit the listeners it called

emitterVars == <<listenerArray, emitCall>>

EmitterInit ==
    /\ listenerArray = <<>>
    /\ emitCall = [op |-> "new", invoked |-> <<>>]

\* listeners.indexOf(listener), 0: not found
IndexOf(list, id) ==
    LET hits == {k \in DOMAIN list : list[k].id = id}
    IN  IF hits = {} THEN 0 ELSE CHOOSE k \in hits : \A j \in hits : k <= j

\* off(event, listener): splice(index, 1) on the array itself
Spliced(list, id) ==
    LET k == IndexOf(list, id)
    IN  IF k = 0 THEN list
        ELSE [j \in 1..(Len(list) - 1) |-> IF j < k THEN list[j] ELSE list[j + 1]]

\* what running a listener does to the array: a once() wrapper removes itself
\* first, then the listener may remove another one
AfterListener(list, l) ==
    LET own == IF l.once THEN Spliced(list, l.id) ELSE list
    IN  IF l.removes = 0 THEN own ELSE Spliced(own, l.removes)

\* listeners.forEach: indices 1..len of the array as it is when each index is
\* visited; an index the array no longer has is skipped
RECURSIVE forEach(_, _, _, _)
forEach(k, len, list, invoked) ==
    IF k > len THEN [list |-> list, invoked |-> invoked]
    ELSE IF k > Len(list) THEN forEach(k + 1, len, list, invoked)
    ELSE forEach(k + 1, len, AfterListener(list, list[k]), Append(invoked, list[k].id))

\* on(event, listener) and once(event, listener) of a new listener function
EmitterOn(once, removes) ==
    /\ Len(listenerArray) < MaxListeners
    /\ \E id \in ListenerIds :
          /\ IndexOf(listenerArray, id) = 0
          /\ \A other \in ListenerIds : IndexOf(listenerArray, other) = 0 => id <= other
          /\ removes # id
          /\ listenerArray' = Append(listenerArray, [id |-> id, once |-> once, removes |-> removes])
    /\ emitCall' = [op |-> IF once THEN "once" ELSE "on", invoked |-> <<>>]

\* off(event, listener) called by the application
EmitterOff(id) ==
    /\ IndexOf(listenerArray, id) # 0
    /\ listenerArray' = Spliced(listenerArray, id)
    /\ emitCall' = [op |-> "off", invoked |-> <<>>]

\* emit(event)
EmitterEmit ==
    /\ listenerArray # <<>>
    /\ LET r == forEach(1, Len(listenerArray), listenerArray, <<>>)
       IN  /\ listenerArray' = r.list
           /\ emitCall' = [op |-> "emit", invoked |-> r.invoked]

\* C38: emit(event) calls every listener that is registered for the event when
\* emit is called exactly once, in registration order, also when some of them
\* are once() wrappers or remove listeners while the emit is in progress.
C38_EmitCallsEveryRegisteredListener ==
    [][ emitCall'.op = "emit"
        => emitCall'.invoked = [k \in DOMAIN listenerArray |-> listenerArray[k].id]
      ]_emitterVars

(***************************************************************************)
(* Specifications: one subsystem runs, the others stay as constructed       *)
(***************************************************************************)

vars == <<jbVars, recvVars, pubVars, pktVars, eventVars, subVars, roomVars, clientVars, participantVars, pacerVars, lifeVars, emitterVars>>

Init == JBInit /\ RecvInit /\ PubInit /\ PktIdle /\ EventInit /\ SubInit /\ RoomInit /\ ClientInit /\ ParticipantInit /\ PacerInit /\ LifeInit /\ EmitterInit

JBStep ==
    \/ ConnectWorker /\ UNCHANGED <<recvVars, pubVars, pktVars, eventVars, subVars, roomVars, clientVars, participantVars, pacerVars, lifeVars, emitterVars>>
    \/ (\E sr \in WorkerSampleRates, nch \in WorkerChannels, n \in ChunkSizes :
            AudioData(sr, nch, n)) /\ UNCHANGED <<recvVars, pubVars, pktVars, eventVars, subVars, roomVars, clientVars, participantVars, pacerVars, lifeVars, emitterVars>>
    \/ reset /\ UNCHANGED <<recvVars, pubVars, pktVars, eventVars, subVars, roomVars, clientVars, participantVars, pacerVars, lifeVars, emitterVars>>
    \/ (\E data \in SetBufferSizeInputs : SetBufferSize(data)) /\ UNCHANGED <<recvVars, pubVars, pktVars, eventVars, subVars, roomVars, clientVars, participantVars, pacerVars, lifeVars, emitterVars>>
    \/ (\E nout \in OutputChannels, L \in BlockLengths : process(nout, L)) /\ UNCHANGED <<recvVars, pubVars, pktVars, eventVars, subVars, roomVars, clientVars, participantVars, pacerVars, lifeVars, emitterVars>>

SpecJB == Init /\ [][JBStep]_vars

RecvStep ==
    \/ (\E q \in Tiers, port \in BOOLEAN : WorkerInit(q, port)) /\ UNCHANGED <<jbVars, pubVars, pktVars, eventVars, subVars, roomVars, clientVars, participantVars, pacerVars, lifeVars, emitterVars>>
    \/ WsOpen /\ UNCHANGED <<jbVars, pubVars, pktVars, eventVars, subVars, roomVars, clientVars, participantVars, pacerVars, lifeVars, emitterVars>>
    \/ WsClose /\ UNCHANGED <<jbVars, pubVars, pktVars, eventVars, subVars, roomVars, clientVars, participantVars, pacerVars, lifeVars, emitterVars>>
    \/ (\E t \in Tiers : DecoderError(t)) /\ UNCHANGED <<jbVars, pubVars, pktVars, eventVars, subVars, roomVars, clientVars, participantVars, pacerVars, lifeVars, emitterVars>>
    \/ (\E v \in ConfigVersions : RecvDecoderConfigs(v)) /\ UNCHANGED <<jbVars, pubVars, pktVars, eventVars, subVars, roomVars, clientVars, participantVars, pacerVars, lifeVars, emitterVars>>
    \/ (\E text \in TextMessages : RecvText(text)) /\ UNCHANGED <<jbVars, pubVars, pktVars, eventVars, subVars, roomVars, clientVars, participantVars, pacerVars, lifeVars, emitterVars>>
    \/ (\E ft \in FrameTypes : RecvVideoFrame(ft)) /\ UNCHANGED <<jbVars, pubVars, pktVars, eventVars, subVars, roomVars, clientVars, participantVars, pacerVars, lifeVars, emitterVars>>
    \/ RecvAudioFrame /\ UNCHANGED <<jbVars, pubVars, pktVars, eventVars, subVars, roomVars, clientVars, participantVars, pacerVars, lifeVars, emitterVars>>
    \/ (\E ft \in FrameTypes : RecvOtherFrame(ft)) /\ UNCHANGED <<jbVars, pubVars, pktVars, eventVars, subVars, roomVars, clientVars, participantVars, pacerVars, lifeVars, emitterVars>>
    \/ ToggleAudio /\ UNCHANGED <<jbVars, pubVars, pktVars, eventVars, subVars, roomVars, clientVars, participantVars, pacerVars, lifeVars, emitterVars>>
    \/ (\E q \in Qualities : SwitchBitrate(q)) /\ UNCHANGED <<jbVars, pubVars, pktVars, eventVars, subVars, roomVars, clientVars, participantVars, pacerVars, lifeVars, emitterVars>>
    \/ ResetWebsocket /\ UNCHANGED <<jbVars, pubVars, pktVars, eventVars, subVars, roomVars, clientVars, participantVars, pacerVars, lifeVars, emitterVars>>
    \/ StopWorker /\ UNCHANGED <<jbVars, pubVars, pktVars, eventVars, subVars, roomVars, clientVars, participantVars, pacerVars, lifeVars, emitterVars>>

SpecRecv == Init /\ [][RecvStep]_vars

PubStep ==
    \/ StartPublishing /\ UNCHANGED <<jbVars, recvVars, pktVars, eventVars, subVars, roomVars, clientVars, participantVars, pacerVars, lifeVars, emitterVars>>
    \/ (\E ts \in FrameTimestamps : frameCounter < MaxTimedFrames /\ CaptureFrame(ts))
        /\ UNCHANGED <<jbVars, recvVars, pktVars, eventVars, subVars, roomVars, clientVars, participantVars, pacerVars, lifeVars, emitterVars>>
    \/ (\E q \in CameraEncoders, isKey \in BOOLEAN, hasDecoderConfig \in BOOLEAN :
            (hasDecoderConfig => isKey) /\ handleVideoChunk(q, isKey, hasDecoderConfig))
        /\ UNCHANGED <<jbVars, recvVars, pktVars, eventVars, subVars, roomVars, clientVars, participantVars, pacerVars, lifeVars, emitterVars>>
    \/ (\E empty \in BOOLEAN, isOgg \in BOOLEAN, now \in PerformanceNowUs :
            handleOpusAudioChunk(empty, isOgg, now))
        /\ UNCHANGED <<jbVars, recvVars, pktVars, eventVars, subVars, roomVars, clientVars, participantVars, pacerVars, lifeVars, emitterVars>>
    \/ (\E c \in PubChannels, ok \in BOOLEAN : sendStreamConfig(c, ok))
        /\ UNCHANGED <<jbVars, recvVars, pktVars, eventVars, subVars, roomVars, clientVars, participantVars, pacerVars, lifeVars, emitterVars>>
    \/ toggleMic /\ UNCHANGED <<jbVars, recvVars, pktVars, eventVars, subVars, roomVars, clientVars, participantVars, pacerVars, lifeVars, emitterVars>>
    \/ toggleCamera /\ UNCHANGED <<jbVars, recvVars, pktVars, eventVars, subVars, roomVars, clientVars, participantVars, pacerVars, lifeVars, emitterVars>>
    \/ stop /\ UNCHANGED <<jbVars, recvVars, pktVars, eventVars, subVars, roomVars, clientVars, participantVars, pacerVars, lifeVars, emitterVars>>
    \/ (\E c \in PubChannels : WriteRejected(c)) /\ UNCHANGED <<jbVars, recvVars, pktVars, eventVars, subVars, roomVars, clientVars, participantVars, pacerVars, lifeVars, emitterVars>>

SpecPub == Init /\ [][PubStep]_vars

\* the capture loop with its encoders
CaptureStep ==
    \/ StartPublishing /\ UNCHANGED <<jbVars, recvVars, pktVars, eventVars, subVars, roomVars, clientVars, participantVars, pacerVars, lifeVars, emitterVars>>
    \/ (\E ts \in FrameTimestamps : CaptureFrame(ts)) /\ UNCHANGED <<jbVars, recvVars, pktVars, eventVars, subVars, roomVars, clientVars, participantVars, pacerVars, lifeVars, emitterVars>>
    \/ (\E q \in CameraEncoders : EncoderDequeue(q)) /\ UNCHANGED <<jbVars, recvVars, pktVars, eventVars, subVars, roomVars, clientVars, participantVars, pacerVars, lifeVars, emitterVars>>
    \/ toggleCamera /\ UNCHANGED <<jbVars, recvVars, pktVars, eventVars, subVars, roomVars, clientVars, participantVars, pacerVars, lifeVars, emitterVars>>
    \/ stop /\ UNCHANGED <<jbVars, recvVars, pktVars, eventVars, subVars, roomVars, clientVars, participantVars, pacerVars, lifeVars, emitterVars>>

SpecCapture == Init /\ [][CaptureStep]_vars

PacketInit == JBInit /\ RecvInit /\ PubInit /\ PktInputs /\ EventInit /\ SubInit /\ RoomInit /\ ClientInit /\ ParticipantInit /\ PacerInit /\ LifeInit /\ EmitterInit

PacketStep ==
    \/ EncodePacket /\ UNCHANGED <<jbVars, recvVars, pubVars, eventVars, subVars, roomVars, clientVars, participantVars, pacerVars, lifeVars, emitterVars>>
    \/ SendPacket /\ UNCHANGED <<jbVars, recvVars, pubVars, eventVars, subVars, roomVars, clientVars, participantVars, pacerVars, lifeVars, emitterVars>>
    \/ ReceivePacket /\ UNCHANGED <<jbVars, recvVars, pubVars, eventVars, subVars, roomVars, clientVars, participantVars, pacerVars, lifeVars, emitterVars>>

SpecPacket == PacketInit /\ [][PacketStep]_vars

\* the event channel over the connections of one Publisher
EventStep ==
    \/ createEventStream /\ UNCHANGED <<jbVars, recvVars, pubVars, pktVars, subVars, roomVars, clientVars, participantVars, pacerVars, lifeVars, emitterVars>>
    \/ sendPublisherState /\ UNCHANGED <<jbVars, recvVars, pubVars, pktVars, subVars, roomVars, clientVars, participantVars, pacerVars, lifeVars, emitterVars>>
    \/ StartHeartbeat /\ UNCHANGED <<jbVars, recvVars, pubVars, pktVars, subVars, roomVars, clientVars, participantVars, pacerVars, lifeVars, emitterVars>>
    \/ HeartbeatTick /\ UNCHANGED <<jbVars, recvVars, pubVars, pktVars, subVars, roomVars, clientVars, participantVars, pacerVars, lifeVars, emitterVars>>
    \/ stopEventStream /\ UNCHANGED <<jbVars, recvVars, pubVars, pktVars, subVars, roomVars, clientVars, participantVars, pacerVars, lifeVars, emitterVars>>

SpecEvent == Init /\ [][EventStep]_vars

\* one Subscriber instance and the calls its owner makes
SubscriberInit == JBInit /\ RecvInit /\ PubInit /\ PktIdle /\ EventInit /\ SubInputs /\ RoomInit /\ ClientInit /\ ParticipantInit /\ PacerInit /\ LifeInit /\ EmitterInit

SubscriberStep ==
    \/ (\E mixer \in BOOLEAN : setAudioMixer(mixer))
        /\ UNCHANGED <<jbVars, recvVars, pubVars, pktVars, eventVars, roomVars, clientVars, participantVars, pacerVars, lifeVars, emitterVars>>
    \/ (\E audioOk \in BOOLEAN, videoOk \in BOOLEAN : SubscriberStart(audioOk, videoOk))
        /\ UNCHANGED <<jbVars, recvVars, pubVars, pktVars, eventVars, roomVars, clientVars, participantVars, pacerVars, lifeVars, emitterVars>>
    \/ SubscriberStop /\ UNCHANGED <<jbVars, recvVars, pubVars, pktVars, eventVars, roomVars, clientVars, participantVars, pacerVars, lifeVars, emitterVars>>
    \/ SubscriberToggleAudio /\ UNCHANGED <<jbVars, recvVars, pubVars, pktVars, eventVars, roomVars, clientVars, participantVars, pacerVars, lifeVars, emitterVars>>

SpecSub == SubscriberInit /\ [][SubscriberStep]_vars

\* the Room's participants and pinning
RoomStep ==
    \/ (\E u \in RoomUsers : addParticipant(u))
        /\ UNCHANGED <<jbVars, recvVars, pubVars, pktVars, eventVars, subVars, clientVars, participantVars, pacerVars, lifeVars, emitterVars>>
    \/ (\E u \in RoomUsers : removeParticipant(u))
        /\ UNCHANGED <<jbVars, recvVars, pubVars, pktVars, eventVars, subVars, clientVars, participantVars, pacerVars, lifeVars, emitterVars>>
    \/ (\E u \in RoomUsers : pinParticipant(u))
        /\ UNCHANGED <<jbVars, recvVars, pubVars, pktVars, eventVars, subVars, clientVars, participantVars, pacerVars, lifeVars, emitterVars>>
    \/ unpinParticipant /\ UNCHANGED <<jbVars, recvVars, pubVars, pktVars, eventVars, subVars, clientVars, participantVars, pacerVars, lifeVars, emitterVars>>
    \/ (\E u \in RoomUsers : togglePin(u))
        /\ UNCHANGED <<jbVars, recvVars, pubVars, pktVars, eventVars, subVars, clientVars, participantVars, pacerVars, lifeVars, emitterVars>>

SpecRoom == Init /\ [][RoomStep]_vars

\* the client's authentication and reconnection
ClientStep ==
    \/ (\E u \in ClientUserIds, ok \in BOOLEAN : authenticate(u, ok))
        /\ UNCHANGED <<jbVars, recvVars, pubVars, pktVars, eventVars, subVars, roomVars, participantVars, pacerVars, lifeVars, emitterVars>>
    \/ logout /\ UNCHANGED <<jbVars, recvVars, pubVars, pktVars, eventVars, subVars, roomVars, participantVars, pacerVars, lifeVars, emitterVars>>
    \/ (\E i \in DOMAIN reconnectLoops, ok \in BOOLEAN : AttemptReconnect(i, ok))
        /\ UNCHANGED <<jbVars, recvVars, pubVars, pktVars, eventVars, subVars, roomVars, participantVars, pacerVars, lifeVars, emitterVars>>
    \/ (\E i \in DOMAIN reconnectLoops : ReconnectGiveUp(i))
        /\ UNCHANGED <<jbVars, recvVars, pubVars, pktVars, eventVars, subVars, roomVars, participantVars, pacerVars, lifeVars, emitterVars>>

SpecClient == Init /\ [][ClientStep]_vars

\* one Participant and the listeners registered on it
ParticipantStep ==
    \/ (\E e \in ParticipantEvents, l \in Listeners : on(e, l))
        /\ UNCHANGED <<jbVars, recvVars, pubVars, pktVars, eventVars, subVars, roomVars, clientVars, pacerVars, lifeVars, emitterVars>>
    \/ (\E e \in ParticipantEvents, l \in Listeners : off(e, l))
        /\ UNCHANGED <<jbVars, recvVars, pubVars, pktVars, eventVars, subVars, roomVars, clientVars, pacerVars, lifeVars, emitterVars>>
    \/ (\E st \in {"connecting", "connected", "failed"} : setConnectionStatus(st))
        /\ UNCHANGED <<jbVars, recvVars, pubVars, pktVars, eventVars, subVars, roomVars, clientVars, pacerVars, lifeVars, emitterVars>>
    \/ cleanup
        /\ UNCHANGED <<jbVars, recvVars, pubVars, pktVars, eventVars, subVars, roomVars, clientVars, pacerVars, lifeVars, emitterVars>>

SpecParticipant == Init /\ [][ParticipantStep]_vars

\* the two pacing timers of the media worker, started on drawn queues
PacerStart == JBInit /\ RecvInit /\ PubInit /\ PktIdle /\ EventInit /\ SubInit /\ RoomInit /\ ClientInit /\ ParticipantInit /\ PacerInputs /\ LifeInit /\ EmitterInit

PacerStep ==
    \/ VideoTick /\ UNCHANGED <<jbVars, recvVars, pubVars, pktVars, eventVars, subVars, roomVars, clientVars, participantVars, lifeVars, emitterVars>>
    \/ AudioTick /\ UNCHANGED <<jbVars, recvVars, pubVars, pktVars, eventVars, subVars, roomVars, clientVars, participantVars, lifeVars, emitterVars>>

SpecPacer == PacerStart /\ [][PacerStep]_vars

\* one Publisher's startPublishing() and stop() calls and the callbacks between
LifeStep ==
    \/ (\E i \in StartCallIds : startPublishingCall(i)) /\ UNCHANGED <<jbVars, recvVars, pktVars, eventVars, subVars, roomVars, clientVars, participantVars, pacerVars, pubRest, emitterVars>>
    \/ (\E i \in StartCallIds : newWebTransport(i)) /\ UNCHANGED <<jbVars, recvVars, pktVars, eventVars, subVars, roomVars, clientVars, participantVars, pacerVars, pubRest, emitterVars>>
    \/ (\E i \in StartCallIds : setupStreams(i)) /\ UNCHANGED <<jbVars, recvVars, pktVars, eventVars, subVars, roomVars, clientVars, participantVars, pacerVars, pubRest, emitterVars>>
    \/ (\E i \in StartCallIds, ok \in BOOLEAN : startStreamingCall(i, ok)) /\ UNCHANGED <<jbVars, recvVars, pktVars, eventVars, subVars, roomVars, clientVars, participantVars, pacerVars, pubRest, emitterVars>>
    \/ (\E g \in StartCallIds : captureLoopCheck(g)) /\ UNCHANGED <<jbVars, recvVars, pktVars, eventVars, subVars, roomVars, clientVars, participantVars, pacerVars, pubRest, emitterVars>>
    \/ (\E g \in StartCallIds : captureLoopRead(g)) /\ UNCHANGED <<jbVars, recvVars, pktVars, eventVars, subVars, roomVars, clientVars, participantVars, pacerVars, pubRest, emitterVars>>
    \/ (\E g \in StartCallIds : captureLoopDone(g)) /\ UNCHANGED <<jbVars, recvVars, pktVars, eventVars, subVars, roomVars, clientVars, participantVars, pacerVars, pubRest, emitterVars>>
    \/ (\E g \in StartCallIds, q \in CameraEncoders : encoderOutput(g, q)) /\ UNCHANGED <<jbVars, recvVars, pktVars, eventVars, subVars, roomVars, clientVars, participantVars, pacerVars, pubRest, emitterVars>>
    \/ onIntervalMessage /\ UNCHANGED <<jbVars, recvVars, pktVars, eventVars, subVars, roomVars, clientVars, participantVars, pacerVars, pubRest, emitterVars>>
    \/ stopCall /\ UNCHANGED <<jbVars, recvVars, pktVars, eventVars, subVars, roomVars, clientVars, participantVars, pacerVars, pubRest, emitterVars>>
    \/ stopCloseEncoder /\ UNCHANGED <<jbVars, recvVars, pktVars, eventVars, subVars, roomVars, clientVars, participantVars, pacerVars, pubRest, emitterVars>>
    \/ stopAudioProcessor /\ UNCHANGED <<jbVars, recvVars, pktVars, eventVars, subVars, roomVars, clientVars, participantVars, pacerVars, pubRest, emitterVars>>
    \/ stopCloseWriter /\ UNCHANGED <<jbVars, recvVars, pktVars, eventVars, subVars, roomVars, clientVars, participantVars, pacerVars, pubRest, emitterVars>>
    \/ stopFinish /\ UNCHANGED <<jbVars, recvVars, pktVars, eventVars, subVars, roomVars, clientVars, participantVars, pacerVars, pubRest, emitterVars>>

SpecLife == Init /\ [][LifeStep]_vars

\* one event of an EventEmitter and the listeners registered for it
EmitterStep ==
    \/ (\E once \in BOOLEAN, removes \in {0} \cup ListenerIds : EmitterOn(once, removes)) /\ UNCHANGED <<jbVars, recvVars, pubVars, pktVars, eventVars, subVars, roomVars, clientVars, participantVars, pacerVars, lifeVars>>
    \/ (\E id \in ListenerIds : EmitterOff(id)) /\ UNCHANGED <<jbVars, recvVars, pubVars, pktVars, eventVars, subVars, roomVars, clientVars, participantVars, pacerVars, lifeVars>>
    \/ EmitterEmit /\ UNCHANGED <<jbVars, recvVars, pubVars, pktVars, eventVars, subVars, roomVars, clientVars, participantVars, pacerVars, lifeVars>>

SpecEmitter == Init /\ [][EmitterStep]_vars

(***************************************************************************)
(* Receiver properties                                                     *)
(***************************************************************************)

\* the step handled a media frame and called decode() on a decoder
PassedToDecoder(call) == call.op = "frame" /\ call.decode # "none"

\* the step handled a media frame and a configured decoder accepted it
Decoded(call) == PassedToDecoder(call) /\ call.decState = "configured"

\* C2: a media frame is passed to a decoder only when the codec config of its
\* kind has been received and applied (audioCodecReceived for type 6,
\* videoCodecReceived for types 0-3); otherwise it is dropped.
C2_NoDecodeBeforeCodec ==
    [][ PassedToDecoder(recvCall')
        => IF recvCall'.ft = 6 THEN audioCodecReceived ELSE videoCodecReceived ]_recvVars

\* C3: a delta frame of a tier is decoded by that tier's decoder only if a key
\* frame of the same tier was received since the last reset or quality switch.
C3_DeltaNeedsKeyOfSameTier ==
    [][ (Decoded(recvCall') /\ recvCall'.ft \in {1, 3})
        => keySince[FrameTier(recvCall'.ft)] ]_recvVars

\* C4: with the configs of both tiers received, a video frame is decoded only
\* if its tier is the active tier (no 720p frame while 360p is active).
C4_OnlyActiveTierDecoded ==
    [][ (Decoded(recvCall') /\ recvCall'.ft \in 0..3 /\ videoCodecReceived)
        => FrameTier(recvCall'.ft) = currentQuality ]_recvVars

\* C5 as stated: after switchBitrate("720p") is processed while the active tier
\* is 360p, the active tier is 720p and keyFrameReceived is false.
C5_Original_SwitchResetsGate ==
    [][ (/\ recvCall'.op = "switchBitrate"
         /\ recvCall'.quality = "720p"
         /\ currentQuality = "360p")
        => /\ currentQuality' = "720p"
           /\ currentVideoDecoder' = "720p"
           /\ keyFrameReceived' = FALSE ]_recvVars

\* C5 amended: after switchBitrate("720p") is processed while the active tier is
\* 360p and the media socket is OPEN, the active tier is 720p and keyFrameReceived
\* is false, whatever key frames were received before.
C5_SwitchResetsGateWhenSocketOpen ==
    [][ (/\ recvCall'.op = "switchBitrate"
         /\ recvCall'.quality = "720p"
         /\ currentQuality = "360p"
         /\ mediaWebsocket = "open")
        => /\ currentQuality' = "720p"
           /\ currentVideoDecoder' = "720p"
           /\ keyFrameReceived' = FALSE
           /\ recvCall'.sent = <<"720p">> ]_recvVars

C5_Witness ==
    /\ recvCall.op = "switchBitrate"
    /\ recvCall.quality = "720p"
    /\ recvCall.from = "360p"
    /\ recvCall.switched
    /\ recvCall.hadKey["720p"]
    /\ currentQuality = "720p"
    /\ ~keyFrameReceived

C36_PublishTextResets ==
    [][ (recvCall'.op = "text" /\ recvCall'.text = "publish")
        => /\ ~videoCodecReceived'
           /\ ~audioCodecReceived'
           /\ ~keyFrameReceived' ]_recvVars

\* C40: a switchBitrate message processed while the media socket is absent or
\* not OPEN leaves currentQuality, the active decoder and keyFrameReceived as
\* they were, sends nothing to the server and posts no bitrateChanged message.
C40_SwitchWithoutSocketIsNoOp ==
    [][ (recvCall'.op = "switchBitrate" /\ mediaWebsocket # "open")
        => /\ currentQuality' = currentQuality
           /\ currentVideoDecoder' = currentVideoDecoder
           /\ keyFrameReceived' = keyFrameReceived
           /\ recvCall'.sent = <<>>
           /\ "bitrateChanged" \notin recvCall'.posted ]_recvVars

\* a switch to 720p arrived after the socket had closed, with 360p active and
\* its key frame received: the tier and the key-frame flag are as before
C40_Witness ==
    /\ recvCall.op = "switchBitrate"
    /\ recvCall.quality = "720p"
    /\ ~recvCall.switched
    /\ mediaWebsocket = "closed"
    /\ currentQuality = "360p"
    /\ currentVideoDecoder = "360p"
    /\ keyFrameReceived

====
